---------------------------- MODULE Spec2Model ----------------------------
(***************************************************************************)
(* Model of the Obsidian plugin "AI Chat as Markdown" (src/main.ts).       *)
(*                                                                         *)
(* Text is a sequence of one-character strings.  Offsets, lines and heading *)
(* indices are 0-based as in the TypeScript source; only the access into a  *)
(* TLA+ sequence adds one.                                                  *)
(***************************************************************************)
EXTENDS Integers, Sequences, FiniteSets, TLC

VARIABLES
    doc,        \* editor.getValue(): the text of the open note
    cursor,     \* editor.getCursor(): [line, ch]
    cache,      \* metadataCache.getFileCache(markdownFile)
    settings,   \* this.settings (the fields the commands read)
    pc,         \* position of the running command's editorCallback
    mhe,        \* the IThreadMessages held by the complete-thread callback
    requests,   \* the chat requests handed to the OpenAI-style service
    notices,    \* the Notice objects shown so far
    stream,     \* the open chat stream: chunks received so far
    args,       \* arguments of a function under test
    ret,        \* its result
    alone,      \* history: what the build that starts in the initial state
                \* returns when nothing else runs while it is suspended
    anchor,     \* editor.getCursor("anchor"): the other end of the selection
    view,       \* the MarkdownView: getMode() and getState().source
    calls       \* history: the calls made on the editor, the view and the
                \* service, in the order they were made

vars == <<doc, cursor, cache, settings, pc, mhe, requests, notices, stream, args, ret,
          alone, anchor, view, calls>>

----------------------------------------------------------------------------
(* Bounds of the model.                                                    *)

MaxLine == 4        \* heading lists of the path specification use lines 0..MaxLine
MaxLevel == 3       \* and heading levels 1..MaxLevel
MaxDocLines == 3    \* generated notes have at most this many lines
MaxRangeLines == 2  \* generated notes of the range specification
MaxChunks == 2      \* chunks streamed by the service in one reply
MaxEmbeds == 2      \* generated notes of the embed specification hold at most this many embeds

----------------------------------------------------------------------------
(* JavaScript strings.                                                     *)

Min(a, b) == IF a < b THEN a ELSE b
Max(a, b) == IF a > b THEN a ELSE b

SetMin(S) == CHOOSE x \in S : \A y \in S : x <= y
SetMax(S) == CHOOSE x \in S : \A y \in S : x >= y

\* String.prototype.slice(a, b) for non-negative a, b
slice(s, a, b) ==
    LET lo == Min(a, Len(s))
        hi == Min(b, Len(s))
    IN  IF lo >= hi THEN <<>> ELSE SubSeq(s, lo + 1, hi)

\* String.prototype.substring(a, b) for non-negative a, b: the two are
\* swapped when a > b
substring(s, a, b) == slice(s, Min(a, b), Max(a, b))

IsSpace(c) == c \in {" ", "\n", "\t"}

\* String.prototype.trim()
trim(s) ==
    LET keep == {i \in 1..Len(s) : ~IsSpace(s[i])}
    IN  IF keep = {} THEN <<>> ELSE SubSeq(s, SetMin(keep), SetMax(keep))

Lower == <<"a", "b", "c", "d", "e", "f", "g", "h", "i", "j", "k", "l", "m",
           "n", "o", "p", "q", "r", "s", "t", "u", "v", "w", "x", "y", "z">>
Upper == <<"A", "B", "C", "D", "E", "F", "G", "H", "I", "J", "K", "L", "M",
           "N", "O", "P", "Q", "R", "S", "T", "U", "V", "W", "X", "Y", "Z">>

\* String.prototype.toUpperCase(), on ASCII text
toUpperCase(s) ==
    [k \in 1..Len(s) |->
        IF \E j \in 1..Len(Lower) : Lower[j] = s[k]
        THEN Upper[CHOOSE j \in 1..Len(Lower) : Lower[j] = s[k]]
        ELSE s[k]]

\* String.prototype.startsWith(p)
startsWith(s, p) == Len(s) >= Len(p) /\ SubSeq(s, 1, Len(p)) = p

\* "#".repeat(n)
RECURSIVE repeat(_, _)
repeat(c, n) == IF n <= 0 THEN <<>> ELSE <<c>> \o repeat(c, n - 1)

----------------------------------------------------------------------------
(* The editor (Obsidian's Editor over the note's text).                    *)

\* the indices in text of its newlines, in order
Newlines(text) ==
    SelectSeq([i \in 1..Len(text) |-> i], LAMBDA i : text[i] = "\n")

\* editor.lastLine()
lastLine(text) == Len(Newlines(text))

\* the index in text of the n-th newline, n >= 1
NthNewline(text, n) == Newlines(text)[n]

\* offset of the first character of line n
LineFrom(text, n) == IF n = 0 THEN 0 ELSE NthNewline(text, n)

\* offset just past the last character of line n (where its newline stands)
LineTo(text, n) ==
    IF n >= lastLine(text) THEN Len(text) ELSE NthNewline(text, n + 1) - 1

\* editor.getLine(n)
getLine(text, n) == slice(text, LineFrom(text, n), LineTo(text, n))

RECURSIVE JoinLines(_)
JoinLines(lines) ==
    IF Len(lines) = 0 THEN <<>>
    ELSE IF Len(lines) = 1 THEN lines[1]
    ELSE lines[1] \o <<"\n">> \o JoinLines(Tail(lines))

\* editor.posToOffset(pos): positions past the text are clamped to it
posToOffset(text, pos) ==
    IF pos.line < 0 THEN 0
    ELSE IF pos.line > lastLine(text) THEN Len(text)
    ELSE Min(LineFrom(text, pos.line) + Max(0, pos.ch), LineTo(text, pos.line))

\* editor.offsetToPos(offset)
offsetToPos(text, offset) ==
    LET at == Max(0, Min(offset, Len(text)))
        line == Cardinality({i \in 1..at : text[i] = "\n"})
    IN  [line |-> line, ch |-> at - LineFrom(text, line)]

\* editor.getRange(from, to)
getRange(text, from, to) ==
    slice(text, posToOffset(text, from), posToOffset(text, to))

----------------------------------------------------------------------------
(* The metadata cache Obsidian keeps of a note: its ATX headings and its   *)
(* ![[...]] embeds, each with its position in the text.                    *)

SortedSeq(S) ==
    [k \in 1..Cardinality(S) |->
        CHOOSE x \in S : Cardinality({y \in S : y < x}) = k - 1]

HashCount(line) ==
    LET other == {i \in 1..Len(line) : line[i] # "#"}
    IN  IF other = {} THEN Len(line) ELSE SetMin(other) - 1

IsHeadingLine(line) ==
    LET k == HashCount(line)
    IN  k \in 1..6 /\ (Len(line) = k \/ line[k + 1] = " ")

\* HeadingCache of the heading on line n
HeadingCache(text, n) ==
    LET line == getLine(text, n)
    IN  [heading  |-> trim(slice(line, HashCount(line), Len(line))),
         level    |-> HashCount(line),
         position |-> [start |-> [line |-> n, col |-> 0, offset |-> LineFrom(text, n)],
                       end   |-> [line |-> n, col |-> Len(line), offset |-> LineTo(text, n)]]]

\* CachedMetadata.headings, in document order
ParseHeadings(text) ==
    LET ls == SortedSeq({n \in 0..lastLine(text) : IsHeadingLine(getLine(text, n))})
    IN  [k \in 1..Len(ls) |-> HeadingCache(text, ls[k])]

EmbedStarts(text) ==
    {i \in 1..Len(text) - 2 : text[i] = "!" /\ text[i + 1] = "[" /\ text[i + 2] = "["}

EmbedClosers(text, i) ==
    {j \in i + 3..Len(text) - 1 :
        /\ text[j] = "]" /\ text[j + 1] = "]"
        /\ \A k \in i..j : text[k] # "\n"}

\* EmbedCache of the embed whose "!" is the i-th character of the text
EmbedCache(text, i) ==
    LET j == SetMin(EmbedClosers(text, i))
    IN  [link     |-> SubSeq(text, i + 3, j - 1),
         position |-> [start |-> [offset |-> i - 1], end |-> [offset |-> j + 1]]]

\* CachedMetadata.embeds, in document order
ParseEmbeds(text) ==
    LET es == SortedSeq({i \in EmbedStarts(text) : EmbedClosers(text, i) # {}})
    IN  [k \in 1..Len(es) |-> EmbedCache(text, es[k])]

\* the frontmatter key that names the system prompt file of a note
PromptFileKey ==
    <<"a", "i", "c", "m", "d", "-", "s", "y", "s", "t", "e", "m", "-",
      "p", "r", "o", "m", "p", "t", "-", "f", "i", "l", "e">>

FrontmatterFence == <<"-", "-", "-">>

\* frontmatter without the key, or with the key and no value (null)
NoFrontmatter == [has |-> FALSE, value |-> <<>>]

\* a YAML scalar in double quotes is the text between them
Unquote(v) ==
    IF Len(v) >= 2 /\ v[1] = "\"" /\ v[Len(v)] = "\""
    THEN SubSeq(v, 2, Len(v) - 1)
    ELSE v

\* CachedMetadata.frontmatter["aicmd-system-prompt-file"]: [has, value], the
\* value of the key in the block between the "---" lines the text starts
\* with; has is FALSE when there is no such block or key or the key has no
\* value, and the value may be the empty string
ParseFrontmatter(text) ==
    LET scalar(v) == IF v = <<>> THEN NoFrontmatter ELSE [has |-> TRUE, value |-> Unquote(v)]
        valueOf(line) == scalar(trim(slice(line, Len(PromptFileKey) + 1, Len(line))))
        keyOf(keyed) == IF keyed = {} THEN NoFrontmatter
                        ELSE valueOf(getLine(text, SetMin(keyed)))
        block(closers) ==
            IF getLine(text, 0) # FrontmatterFence \/ closers = {} THEN NoFrontmatter
            ELSE keyOf({n \in 1..SetMin(closers) - 1 :
                           slice(getLine(text, n), 0, Len(PromptFileKey) + 1)
                               = PromptFileKey \o <<":">>})
    IN  block({n \in 1..lastLine(text) : getLine(text, n) = FrontmatterFence})

\* a line that ends in a block id: " ^" and the id
HasBlockId(line) ==
    \E i \in 2..Len(line) - 1 :
        /\ line[i - 1] = " "
        /\ line[i] = "^"
        /\ \A j \in i + 1..Len(line) : line[j] \notin {" ", "^"}

BlockLines(text) == {n \in 0..lastLine(text) : HasBlockId(getLine(text, n))}

\* the first line of the paragraph that line n is in
ParagraphStart(text, n) ==
    SetMin({m \in 0..n :
               \A l \in m..n : /\ getLine(text, l) # <<>>
                                /\ (l < n => ~IsHeadingLine(getLine(text, l)))})

\* the id at the end of a line
BlockId(line) == SubSeq(line, SetMax({j \in 1..Len(line) : line[j] = "^"}) + 1, Len(line))

\* BlockCache of the paragraph that ends in line n, which holds its id
BlockCache(text, n) ==
    [id       |-> BlockId(getLine(text, n)),
     position |-> [start |-> [offset |-> LineFrom(text, ParagraphStart(text, n))],
                   end   |-> [offset |-> LineTo(text, n)]]]

\* CachedMetadata.blocks, in document order
ParseBlocks(text) ==
    LET cached(ls) == [k \in 1..Len(ls) |-> BlockCache(text, ls[k])]
    IN  cached(SortedSeq(BlockLines(text)))

\* metadataCache.getFileCache(file) of a note with this text
FileCache(text) ==
    [avail |-> TRUE, headings |-> ParseHeadings(text), embeds |-> ParseEmbeds(text),
     frontmatter |-> ParseFrontmatter(text), blocks |-> ParseBlocks(text)]

\* getFileCache() returning null
NullCache ==
    [avail |-> FALSE, headings |-> <<>>, embeds |-> <<>>, frontmatter |-> NoFrontmatter,
     blocks |-> <<>>]

----------------------------------------------------------------------------
(* getHeadingPathToCursor                                                  *)

\* headings[i] of the source
At(s, i) == s[i + 1]

\* Mutant: an ancestor is accepted at the same level (<= for <).
RECURSIVE headingPathLoop_sameLevel(_, _, _, _, _)
headingPathLoop_sameLevel(headings, cursorLine, i, currentHeading, headingPath) ==
    IF i < 0 THEN headingPath
    ELSE
        LET heading == At(headings, i)
            accept ==
                IF currentHeading # -1
                THEN /\ heading.position.start.line
                            < At(headings, currentHeading).position.start.line
                     /\ heading.level <= At(headings, currentHeading).level
                ELSE heading.position.start.line <= cursorLine
        IN  IF accept
            THEN headingPathLoop_sameLevel(headings, cursorLine, i - 1, i, <<i>> \o headingPath)
            ELSE headingPathLoop_sameLevel(headings, cursorLine, i - 1, currentHeading, headingPath)

\* One iteration of the backward loop; currentHeading is kept as its index,
\* -1 while it is null.
RECURSIVE headingPathLoop(_, _, _, _, _)
headingPathLoop(headings, cursorLine, i, currentHeading, headingPath) ==
    IF i < 0 THEN headingPath
    ELSE
        LET heading == At(headings, i)
        IN  IF currentHeading # -1
            THEN IF /\ heading.position.start.line
                            < At(headings, currentHeading).position.start.line
                    /\ heading.level < At(headings, currentHeading).level
                 THEN headingPathLoop(headings, cursorLine, i - 1, i, <<i>> \o headingPath)
                 ELSE headingPathLoop(headings, cursorLine, i - 1, currentHeading, headingPath)
            ELSE IF heading.position.start.line <= cursorLine
                 THEN headingPathLoop(headings, cursorLine, i - 1, i, <<i>> \o headingPath)
                 ELSE headingPathLoop(headings, cursorLine, i - 1, currentHeading, headingPath)

\* Mutant: the scan starts one heading too early.
getHeadingPathToCursor_skipLast(headings, cursorLine) ==
    headingPathLoop(headings, cursorLine, Len(headings) - 2, -1, <<>>)

\* Mutant: the heading under the cursor is searched with < for <=.
getHeadingPathToCursor_strictCursor(headings, cursorLine) ==
    headingPathLoop(headings, cursorLine - 1, Len(headings) - 1, -1, <<>>)

getHeadingPathToCursor(headings, cursorLine) ==
    headingPathLoop(headings, cursorLine, Len(headings) - 1, -1, <<>>)

----------------------------------------------------------------------------
(* getHeadingRange                                                         *)

\* Mutant: the range ends at the next heading's start offset, not one before.
getHeadingRange_noSeparator(headings, i, text) ==
    LET heading == At(headings, i)
        last == lastLine(text)
    IN  IF i + 1 < Len(headings)
        THEN LET nextHeading == At(headings, i + 1)
                 line == nextHeading.position.start.line - 1
             IN  [rangeStartOffset |-> heading.position.end.offset + 1,
                  rangeEnd         |-> [line |-> line, ch |-> Len(getLine(text, line))],
                  rangeEndOffset   |-> nextHeading.position.start.offset]
        ELSE [rangeStartOffset |-> heading.position.end.offset + 1,
              rangeEnd         |-> [line |-> last, ch |-> Len(getLine(text, last))],
              rangeEndOffset   |-> Len(text)]

\* Mutant: rangeEnd lies after the child headings, before the next heading
\* that is not deeper than heading i.
getHeadingRange_pastChildren(headings, i, text) ==
    LET heading == At(headings, i)
        last == lastLine(text)
        after == {j \in i + 1..Len(headings) - 1 : At(headings, j).level <= heading.level}
        line == IF after = {} THEN last
                ELSE At(headings, SetMin(after)).position.start.line - 1
    IN  [rangeStartOffset |-> heading.position.end.offset + 1,
         rangeEnd         |-> [line |-> line, ch |-> Len(getLine(text, line))],
         rangeEndOffset   |-> IF i + 1 < Len(headings)
                              THEN At(headings, i + 1).position.start.offset - 1
                              ELSE Len(text)]

\* text is editor.getValue(): the editor is read for line lengths and the end
getHeadingRange(headings, i, text) ==
    LET heading == At(headings, i)
        last == lastLine(text)
    IN  IF i + 1 < Len(headings)
        THEN LET nextHeading == At(headings, i + 1)
                 line == nextHeading.position.start.line - 1
             IN  [rangeStartOffset |-> heading.position.end.offset + 1,
                  rangeEnd         |-> [line |-> line, ch |-> Len(getLine(text, line))],
                  rangeEndOffset   |-> nextHeading.position.start.offset - 1]
        ELSE [rangeStartOffset |-> heading.position.end.offset + 1,
              rangeEnd         |-> [line |-> last, ch |-> Len(getLine(text, last))],
              rangeEndOffset   |-> Len(text)]

----------------------------------------------------------------------------
(* The vault: the note in the editor and the files it can embed.           *)

\* the TFile of the note the editor shows
Note == <<"N", "o", "t", "e">>

\* the text of "h": a section with a paragraph that has a block id and
\* with a subsection, and a second section
SectionsText ==
    JoinLines(<< <<"#", " ", "A">>, <<"t">>, <<"u", " ", "^", "k">>,
                 <<"#", "#", " ", "B">>, <<"v">>,
                 <<"#", " ", "C">>, <<"w">> >>)

\* The other files of the vault, by link path.  "m" embeds "n"; "s" embeds
\* itself and the note in the editor; "p" is an image; "q" is neither a note
\* nor an image; "h" has sections and a block; "r" has an image and a text.
Vault ==
    (<<"m">> :> [extension |-> "md",  basename |-> <<"m">>,
                 text |-> <<"x", " ", "!", "[", "[", "n", "]", "]">>]) @@
    (<<"n">> :> [extension |-> "md",  basename |-> <<"n">>, text |-> <<"y">>]) @@
    (<<"s">> :> [extension |-> "md",  basename |-> <<"s">>,
                 text |-> <<"!", "[", "[", "s", "]", "]",
                            "!", "[", "[", "N", "o", "t", "e", "]", "]">>]) @@
    (<<"p">> :> [extension |-> "png", basename |-> <<"p">>, text |-> <<>>]) @@
    (<<"q">> :> [extension |-> "pdf", basename |-> <<"q">>, text |-> <<>>]) @@
    (<<"h">> :> [extension |-> "md",  basename |-> <<"h">>, text |-> SectionsText]) @@
    (<<"r">> :> [extension |-> "md",  basename |-> <<"r">>,
                 text |-> <<"!", "[", "[", "p", "]", "]", " ", "r">>])

ImageFiles == {f \in DOMAIN Vault : Vault[f].extension = "png"}
TextFiles == {f \in DOMAIN Vault : Vault[f].extension = "md"}

\* What the file system does during one conversion: the images that load and
\* draw, and the embedded notes that can be read.
Envs == [images : SUBSET ImageFiles, texts : {TextFiles, TextFiles \ {<<"m">>}}]

\* vault.cachedRead(file)
cachedRead(file) == IF file = Note THEN doc ELSE Vault[file].text

\* metadataCache.getFileCache(file)
getFileCache(file) == IF file = Note THEN cache ELSE FileCache(Vault[file].text)

\* parseLinktext(link): the path, and the subpath from its "#" on
parseLinktext(link) ==
    LET hashes == {i \in 1..Len(link) : link[i] = "#"}
    IN  IF hashes = {}
        THEN [path |-> link, subpath |-> <<>>]
        ELSE [path    |-> SubSeq(link, 1, SetMin(hashes) - 1),
              subpath |-> SubSeq(link, SetMin(hashes), Len(link))]

\* metadataCache.getFirstLinkpathDest(path, sourcePath): the file's name, or
\* <<>> for null
getFirstLinkpathDest(path) ==
    IF path \in DOMAIN Vault \/ path = Note THEN path ELSE <<>>

\* embeddedFile.extension
extensionOf(file) == IF file = Note THEN "md" ELSE Vault[file].extension

\* what resolveSubpath() gives when nothing matches: null
NoSubpath ==
    [type |-> "null", current |-> -1, next |-> -1,
     block |-> [start |-> [offset |-> 0], end |-> [offset |-> 0]]]

\* resolveSubpath(cache, subpath).  "#^id" is the block with this id.
\* "#Heading" is the first heading with this text (current, an index of
\* cache.headings) and the first heading after it that is not deeper (next,
\* -1 for none), so that a section holds its subsections.
resolveSubpath(fileCache, subpath) ==
    LET name == SubSeq(subpath, 2, Len(subpath))
        next(current) ==
            LET later == {j \in current + 1..Len(fileCache.headings) - 1 :
                             At(fileCache.headings, j).level
                                 <= At(fileCache.headings, current).level}
            IN  IF later = {} THEN -1 ELSE SetMin(later)
        heading(current) ==
            [NoSubpath EXCEPT !.type = "heading", !.current = current,
                              !.next = next(current)]
        resolve(blocks, hits) ==
            IF blocks # {}
            THEN [NoSubpath EXCEPT !.type = "block",
                                   !.block = fileCache.blocks[SetMin(blocks)].position]
            ELSE IF hits # {} THEN heading(SetMin(hits))
            ELSE NoSubpath
    IN  resolve({k \in 1..Len(fileCache.blocks) : <<"^">> \o fileCache.blocks[k].id = name},
                {i \in 0..Len(fileCache.headings) - 1 :
                    At(fileCache.headings, i).heading = name})

----------------------------------------------------------------------------
(* convertRangeToContentParts                                              *)

Null == -1

NoEmbed == [link |-> <<>>, position |-> [start |-> [offset |-> 0], end |-> [offset |-> 0]]]

TextPart(text) == [type |-> "text", text |-> text, embed |-> NoEmbed]
EmbedPart(embed) == [type |-> "embed", text |-> <<>>, embed |-> embed]

\* ExtendedChatCompletionContentPart
ContentText(text) ==
    [type |-> "text", text |-> text, image |-> <<>>, mime_type |-> ""]
ContentImageUrl(file) ==
    [type |-> "image_url", text |-> <<>>, image |-> file, mime_type |-> ""]
ContentImageBuffer(file, mime) ==
    [type |-> "image_buffer", text |-> <<>>, image |-> file, mime_type |-> mime]

\* Mutant: an embed is taken as soon as it starts inside the range.
embedInRange_startOnly(embed, _startOffset, _endOffset) ==
    /\ embed.position.start.offset >= _startOffset
    /\ embed.position.start.offset <= _endOffset

\* Mutant: an embed that ends where the range ends is left out.
embedInRange_endBefore(embed, _startOffset, _endOffset) ==
    /\ embed.position.start.offset >= _startOffset
    /\ embed.position.end.offset < _endOffset

\* the condition of the first loop on an embed
embedInRange(embed, _startOffset, _endOffset) ==
    /\ embed.position.start.offset >= _startOffset
    /\ embed.position.end.offset <= _endOffset

\* The first loop: the text and embed parts of the range, from embed k+1 on.
RECURSIVE splitLoop(_, _, _, _, _, _, _)
splitLoop(embeds, k, currentStart, parts, markdown, _startOffset, _endOffset) ==
    IF k >= Len(embeds)
    THEN \* take care of last bit of text
         IF _endOffset > currentStart
         THEN Append(parts, TextPart(trim(slice(markdown, currentStart, _endOffset))))
         ELSE parts
    ELSE
        LET embed == At(embeds, k)
        IN  IF embedInRange(embed, _startOffset, _endOffset)
            THEN LET before ==
                        IF embed.position.start.offset > currentStart
                        THEN <<TextPart(trim(slice(markdown, currentStart,
                                                   embed.position.start.offset)))>>
                        ELSE <<>>
                 IN  splitLoop(embeds, k + 1, embed.position.end.offset + 1,
                               parts \o before \o <<EmbedPart(embed)>>,
                               markdown, _startOffset, _endOffset)
            ELSE splitLoop(embeds, k + 1, currentStart, parts,
                           markdown, _startOffset, _endOffset)

\* Mutant: the first embed of the embedded note is expanded in its turn.
embeddedMarkdownOf_nested(embeddedFile, subpath) ==
    LET embeddedMarkdown == cachedRead(embeddedFile)
        embeds == ParseEmbeds(embeddedMarkdown)
        inner == getFirstLinkpathDest(embeds[1].link)
    IN  IF Len(embeds) = 0 \/ inner = <<>> THEN embeddedMarkdown
        ELSE slice(embeddedMarkdown, 0, embeds[1].position.start.offset)
             \o cachedRead(inner)
             \o slice(embeddedMarkdown, embeds[1].position.end.offset, Len(embeddedMarkdown))

\* Mutant: the subpath of the link is not looked at.
embeddedMarkdownOf_wholeFile(embeddedFile, subpath) == cachedRead(embeddedFile)

\* the text an embedded note contributes
embeddedMarkdownOf(embeddedFile, subpath) ==
    LET cut(embeddedMarkdown, embeddedCache, sub) ==
            IF subpath = <<>> \/ ~embeddedCache.avail \/ sub.type = "null"
            THEN embeddedMarkdown
            ELSE IF sub.type = "heading"
            THEN substring(embeddedMarkdown,
                           At(embeddedCache.headings, sub.current).position.start.offset,
                           IF sub.next # -1
                           THEN At(embeddedCache.headings, sub.next).position.start.offset
                           ELSE Len(embeddedMarkdown))
            ELSE substring(embeddedMarkdown, sub.block.start.offset, sub.block.end.offset)
    IN  cut(cachedRead(embeddedFile), getFileCache(embeddedFile),
            resolveSubpath(getFileCache(embeddedFile), subpath))

MimeType(ext) == IF ext = "jpg" THEN "image/jpeg" ELSE "image/" \o ext

\* The second loop, from part k+1 on: [ok, error, parts, reads], reads being
\* the files whose content was asked for (cachedRead, imageToDataURL,
\* readBinary), in the order of the calls.  A read of an embedded note that
\* fails is not caught and ends the conversion.
RECURSIVE resolveLoop(_, _, _, _, _, _)
resolveLoop(parts, k, contentParts, reads, base64Images, env) ==
    IF k >= Len(parts)
    THEN [ok |-> TRUE, error |-> "", parts |-> contentParts, reads |-> reads]
    ELSE
        LET part == At(parts, k)
            parsedLink == parseLinktext(part.embed.link)
            embeddedFile == getFirstLinkpathDest(parsedLink.path)
            ext == extensionOf(embeddedFile)
            read == Append(reads, embeddedFile)
            skip(rs) == resolveLoop(parts, k + 1, contentParts, rs, base64Images, env)
            push(c, rs) == resolveLoop(parts, k + 1, Append(contentParts, c), rs,
                                       base64Images, env)
        IN  IF part.type = "text"
            THEN IF part.text # <<>> THEN push(ContentText(part.text), reads) ELSE skip(reads)
            ELSE IF part.embed.link = <<>> \/ embeddedFile = <<>>
            THEN skip(reads)
            ELSE IF ext = "md"
            THEN IF embeddedFile \in env.texts
                 THEN push(ContentText(embeddedMarkdownOf(embeddedFile, parsedLink.subpath)),
                           read)
                 ELSE [ok |-> FALSE, error |-> "read", parts |-> <<>>, reads |-> read]
            ELSE IF base64Images
            THEN IF embeddedFile \in env.images
                 THEN push(ContentImageUrl(embeddedFile), read)
                 ELSE skip(read)
            ELSE IF ext \in {"png", "webp", "jpg", "jpeg"}
                 THEN IF embeddedFile \in env.images
                      THEN push(ContentImageBuffer(embeddedFile, MimeType(ext)), read)
                      ELSE skip(read)
                 ELSE skip(reads)

\* the two loops over the embeds of the cache and the text of the file, after
\* the file was read
contentPartsOf(embeds, markdown, startOffset, endOffset, base64Images, env) ==
    LET _startOffset == IF startOffset = Null THEN 0 ELSE startOffset
        _endOffset == IF endOffset = Null THEN Len(markdown) ELSE endOffset
        parts == splitLoop(embeds, 0, _startOffset, <<>>, markdown,
                           _startOffset, _endOffset)
    IN  resolveLoop(parts, 0, <<>>, <<Note>>, base64Images, env)

\* Mutant: without a cache the range is converted as if it held no embeds.
convertRangeToContentParts_noCache(startOffset, endOffset, markdownFile, base64Images, env) ==
    LET fileCache == getFileCache(markdownFile)
    IN  contentPartsOf(IF fileCache.avail THEN fileCache.embeds ELSE <<>>,
                       cachedRead(markdownFile),
                       startOffset, endOffset, base64Images, env)

\* [ok, error, parts, reads]; ok = FALSE is a raised Error
convertRangeToContentParts(startOffset, endOffset, markdownFile, base64Images, env) ==
    LET fileCache == getFileCache(markdownFile)
    IN  IF ~fileCache.avail
        THEN [ok |-> FALSE, error |-> "cache", parts |-> <<>>, reads |-> <<>>]
        ELSE contentPartsOf(fileCache.embeds, cachedRead(markdownFile),
                            startOffset, endOffset, base64Images, env)

----------------------------------------------------------------------------
(* convertCurrentThreadToMessages                                          *)

\* OpenAI.ChatCompletionMessageParam: content is a string (kind "string",
\* in text) or a list of content parts (kind "parts", in parts)
StringMessage(role, text) ==
    [role |-> role, kind |-> "string", text |-> text, parts |-> <<>>]
PartsMessage(role, parts) ==
    [role |-> role, kind |-> "parts", text |-> <<>>, parts |-> parts]

\* Mutant: no system message is put first.
initMessages_empty(systemMessage) == <<>>

initMessages(systemMessage) == <<StringMessage("system", systemMessage)>>

\* Mutant: the heading is compared as written, without toUpperCase().
roleOf_caseSensitive(heading) ==
    IF startsWith(heading, <<"A", "I">>)
       \/ startsWith(heading, <<"A", "S", "S", "I", "S", "T", "A", "N", "T">>)
    THEN "assistant"
    ELSE "user"

\* the role of a heading with this text
roleOf(heading) ==
    LET uHeading == toUpperCase(heading)
    IN  IF startsWith(uHeading, <<"A", "I">>)
           \/ startsWith(uHeading, <<"A", "S", "S", "I", "S", "T", "A", "N", "T">>)
        THEN "assistant"
        ELSE "user"

NoHeading ==
    [heading  |-> <<>>,
     level    |-> 0,
     position |-> [start |-> [line |-> 0, col |-> 0, offset |-> 0],
                   end   |-> [line |-> 0, col |-> 0, offset |-> 0]]]

\* IThreadMessages, or the Error raised (ok = FALSE)
NoMhe == [ok |-> FALSE, error |-> "", messages |-> <<>>, heading |-> NoHeading,
          rangeEnd |-> [line |-> 0, ch |-> 0], reads |-> <<>>]
ThreadError(error) == [NoMhe EXCEPT !.error = error]

\* Mutant: an assistant turn is converted to content parts like a user turn.
threadMessage_allParts(headings, i, markdownFile, env) ==
    LET r == getHeadingRange(headings, i, doc)
        contentParts == convertRangeToContentParts(r.rangeStartOffset, r.rangeEndOffset,
                                                   markdownFile, TRUE, env)
    IN  [ok |-> contentParts.ok,
         message |-> PartsMessage(roleOf(At(headings, i).heading), contentParts.parts),
         reads |-> contentParts.reads]

\* the body of the loop over the path: the message of headings[i], or the
\* Error raised while converting it
threadMessage(headings, i, markdownFile, env) ==
    LET heading == At(headings, i)
        r == getHeadingRange(headings, i, doc)
        role == roleOf(heading.heading)
        contentParts == convertRangeToContentParts(r.rangeStartOffset, r.rangeEndOffset,
                                                   markdownFile, TRUE, env)
    IN  IF role = "assistant"
        THEN [ok |-> TRUE,
              message |-> StringMessage(role,
                              getRange(doc, [line |-> heading.position.end.line + 1, ch |-> 0],
                                       r.rangeEnd)),
              reads |-> <<>>]
        ELSE [ok |-> contentParts.ok, message |-> PartsMessage(role, contentParts.parts),
              reads |-> contentParts.reads]

\* the loop over headingPath, from its entry k+1 on
RECURSIVE threadLoop(_, _, _, _, _, _, _)
threadLoop(headings, headingPath, k, messages, reads, markdownFile, env) ==
    IF k >= Len(headingPath)
    THEN LET i == At(headingPath, Len(headingPath) - 1)
         IN  [ok       |-> TRUE,
              error    |-> "",
              messages |-> messages,
              heading  |-> At(headings, i),
              rangeEnd |-> getHeadingRange(headings, i, doc).rangeEnd,
              reads    |-> reads]
    ELSE
        LET push(m) ==
                IF m.ok
                THEN threadLoop(headings, headingPath, k + 1, Append(messages, m.message),
                                reads \o m.reads, markdownFile, env)
                ELSE [ThreadError("parts") EXCEPT !.reads = reads \o m.reads]
        IN  push(threadMessage(headings, At(headingPath, k), markdownFile, env))

convertCurrentThreadToMessages(markdownFile, systemMessage, env) ==
    LET fileCache == getFileCache(markdownFile)
        headings == fileCache.headings
        headingPath == getHeadingPathToCursor(headings, cursor.line)
    IN  IF ~fileCache.avail THEN ThreadError("Could not find cache")
        ELSE IF Len(headingPath) = 0 THEN ThreadError("No headings to work with")
        ELSE threadLoop(headings, headingPath, 0, initMessages(systemMessage), <<>>,
                        markdownFile, env)

----------------------------------------------------------------------------
(* replaceRangeMoveCursor                                                  *)

\* text.split("\n")
SplitLines(text) ==
    [k \in 1..lastLine(text) + 1 |-> getLine(text, k - 1)]

\* Mutant: the column of the cursor is counted from the old column even
\* when the text has several lines.
replaceRangeMoveCursor_keepsColumn(ed, text) ==
    LET at == posToOffset(ed.doc, ed.cursor)
        lines == SplitLines(text)
    IN  [doc    |-> slice(ed.doc, 0, at) \o text \o slice(ed.doc, at, Len(ed.doc)),
         cursor |-> [line |-> ed.cursor.line + Len(lines) - 1,
                     ch   |-> ed.cursor.ch + Len(lines[Len(lines)])]]

\* the editor's [doc, cursor] after replaceRangeMoveCursor(editor, text)
replaceRangeMoveCursor(ed, text) ==
    LET at == posToOffset(ed.doc, ed.cursor)
        lines == SplitLines(text)
    IN  [doc    |-> slice(ed.doc, 0, at) \o text \o slice(ed.doc, at, Len(ed.doc)),
         cursor |-> [line |-> ed.cursor.line + Len(lines) - 1,
                     ch   |-> (IF Len(lines) = 1 THEN ed.cursor.ch ELSE 0)
                              + Len(lines[Len(lines)])]]

----------------------------------------------------------------------------
(* Values of the state a specification does not use.                       *)

NoSettings ==
    [systemPrompt |-> <<>>, systemPromptFile |-> <<>>, showUsedModel |-> FALSE,
     model |-> <<>>]
NoStream == [chunks |-> 0, roc |-> [citations |-> <<>>], didSwitchMode |-> FALSE]
NoView == [mode |-> "source", source |-> TRUE]

NoCommand ==
    /\ doc = <<>>
    /\ cursor = [line |-> 0, ch |-> 0]
    /\ cache = NullCache
    /\ settings = NoSettings
    /\ pc = "off"
    /\ mhe = NoMhe
    /\ requests = <<>>
    /\ notices = <<>>
    /\ stream = NoStream
    /\ alone = NoMhe
    /\ anchor = cursor
    /\ view = NoView
    /\ calls = <<>>

----------------------------------------------------------------------------
(* The notes of the model.                                                 *)

LineQ     == <<"#", " ", "Q">>
LineAI    == <<"#", "#", " ", "A", "I">>
LineLower == <<"#", " ", "a", "i">>
LineText  == <<"H", "i">>
LineEmpty == <<>>
LineImage == <<"!", "[", "[", "p", "]", "]">>
LineNote  == <<"!", "[", "[", "m", "]", "]">>

NoteLines == {LineQ, LineAI, LineLower, LineText, LineEmpty, LineImage}

\* spec.md, end-to-end scenario: "# Q\nHello\n\n## AI\nHi there\n\n### Q2\nBye"
ExampleDoc ==
    JoinLines(<< <<"#", " ", "Q">>,
                 <<"H", "e", "l", "l", "o">>,
                 <<>>,
                 <<"#", "#", " ", "A", "I">>,
                 <<"H", "i", " ", "t", "h", "e", "r", "e">>,
                 <<>>,
                 <<"#", "#", "#", " ", "Q", "2">>,
                 <<"B", "y", "e">> >>)

\* spec.md, role classification: the four headings named there, nested
RoleDoc ==
    JoinLines(<< <<"#", " ", "A", "I", ":", " ", "f", "o", "l", "l", "o", "w", "-", "u", "p">>,
                 <<"#", "#", " ", "a", "i", " ", "q", "u", "i", "c", "k", " ",
                   "c", "h", "e", "c", "k">>,
                 <<"#", "#", "#", " ", "A", "s", "s", "i", "s", "t", "a", "n", "t", " ",
                   "n", "o", "t", "e", "s">>,
                 <<"#", "#", "#", "#", " ", "A", "i", "d", "e", "n", "'", "s", " ",
                   "q", "u", "e", "s", "t", "i", "o", "n">>,
                 <<"#", "#", "#", "#", "#", " ", "T", "h", "e", " ", "A", "I">> >>)

\* a user turn and an assistant turn that both hold an embedded image
EmbedDoc == JoinLines(<<LineQ, LineImage, LineAI, LineImage>>)

Docs ==
    {JoinLines(ls) : ls \in UNION {[1..n -> NoteLines] : n \in 1..MaxDocLines}}
    \cup {ExampleDoc, RoleDoc, EmbedDoc}

----------------------------------------------------------------------------
(* The commands.                                                           *)

Chunks ==
    {[content |-> <<"a">>, citations |-> <<>>],
     [content |-> <<"\n", "b">>, citations |-> << <<"u">> >>]}

Digits == <<"1", "2", "3", "4", "5", "6", "7", "8", "9">>

\* citations.map((url, index) => `${index + 1}. <${url}>`).join("\n")
RECURSIVE citationList(_, _)
citationList(citations, k) ==
    IF k > Len(citations) THEN <<>>
    ELSE (IF k > 1 THEN <<"\n">> ELSE <<>>)
         \o <<Digits[k], ".", " ", "<">> \o citations[k] \o <<">">>
         \o citationList(citations, k + 1)

CitationsHeader ==
    <<"\n", "\n", "*", "*", "C", "i", "t", "a", "t", "i", "o", "n", "s", ":", "*", "*", "\n">>

\* the editor after renderSearchResultsOrCitations(roc, editor)
renderSearchResultsOrCitations(roc, ed) ==
    IF Len(roc.citations) > 0
    THEN replaceRangeMoveCursor(ed, CitationsHeader \o citationList(roc.citations, 1))
    ELSE ed

\* extractSearchResultsOrCitations(chunk, roc)
extractSearchResultsOrCitations(chunk, roc) ==
    IF Len(chunk.citations) > 0 THEN [roc EXCEPT !.citations = chunk.citations] ELSE roc

\* the heading the reply is written under
aiHeading(aiLevel, showUsedModel, model) ==
    <<"\n", "\n">> \o repeat("#", aiLevel) \o <<" ", "A", "I">>
    \o (IF showUsedModel
        THEN <<" ", "(", "m", "o", "d", "e", "l", ":", ":", " ">> \o model \o <<")">>
        ELSE <<>>)
    \o <<"\n">>

\* Mutant: the "User" heading is written at the level of the AI heading.
userHeading_sameLevel(aiLevel) ==
    <<"\n", "\n">> \o repeat("#", aiLevel) \o <<" ", "U", "s", "e", "r", "\n">>

userHeading(aiLevel) ==
    <<"\n", "\n">> \o repeat("#", aiLevel + 1) \o <<" ", "U", "s", "e", "r", "\n">>

\* the view the command runs in: an editor (getMode() is "source"), in
\* live preview (source is FALSE) or in source mode
Views == {[mode |-> "source", source |-> b] : b \in BOOLEAN}

\* Mutant: the view is switched but the caller is not told.
maybeSwitchToSourceMode_forgets(v) ==
    [view |-> [v EXCEPT !.source = TRUE], didSwitch |-> FALSE]

\* [view, didSwitch]: the view after the call and what the call returns
maybeSwitchToSourceMode(v) ==
    IF v.mode = "source" /\ v.source = FALSE
    THEN [view |-> [v EXCEPT !.source = TRUE], didSwitch |-> TRUE]
    ELSE [view |-> v, didSwitch |-> FALSE]

maybeSwitchBackToPreviewMode(v, didSwitch) ==
    IF didSwitch THEN [v EXCEPT !.source = FALSE] ELSE v

\* an entry of calls: the function called and the text it was given
Call(op, text) == [op |-> op, text |-> text]

\* view.setState({..., source}) as an entry of calls
SetState(source) == Call("setState", IF source THEN <<"source">> ELSE <<"preview">>)

\* the entries of maybeSwitchToSourceMode(v) and of
\* maybeSwitchBackToPreviewMode(v, didSwitch)
switchCalls(didSwitch, source) == IF didSwitch THEN <<SetState(source)>> ELSE <<>>

\* the entries of renderSearchResultsOrCitations(roc, editor)
citationCalls(roc) ==
    IF Len(roc.citations) > 0
    THEN <<Call("replaceRangeMoveCursor", CitationsHeader \o citationList(roc.citations, 1))>>
    ELSE <<>>

\* file.extension, as it is written in a path
ExtensionText(extension) ==
    CASE extension = "md"  -> <<"m", "d">>
      [] extension = "png" -> <<"p", "n", "g">>
      [] extension = "pdf" -> <<"p", "d", "f">>

\* file.path: the files of the vault are in its root folder
pathOf(file) == Vault[file].basename \o <<".">> \o ExtensionText(Vault[file].extension)

\* vault.getFileByPath(path): the file, or <<>> for null
getFileByPath(path) ==
    LET files == {file \in DOMAIN Vault : pathOf(file) = path}
    IN  IF files = {} THEN <<>> ELSE CHOOSE file \in files : TRUE

\* Mutant: the configured file is preferred to the one the note names.
getRequestedSystemPromptFile_settingsFirst(markdownFile) ==
    LET fileCache == getFileCache(markdownFile)
    IN  IF settings.systemPromptFile # <<>> \/ ~fileCache.avail
        THEN settings.systemPromptFile
        ELSE fileCache.frontmatter.value

\* this.getRequestedSystemPromptFile(markdownFile)
getRequestedSystemPromptFile(markdownFile) ==
    LET fileCache == getFileCache(markdownFile)
    IN  IF fileCache.avail /\ fileCache.frontmatter.has
        THEN fileCache.frontmatter.value
        ELSE settings.systemPromptFile

\* sysContentParts.filter(type === "text").map(text).join("\n"), from part k
RECURSIVE joinTextParts(_, _, _)
joinTextParts(sysContentParts, k, first) ==
    IF k > Len(sysContentParts) THEN <<>>
    ELSE IF sysContentParts[k].type # "text"
    THEN joinTextParts(sysContentParts, k + 1, first)
    ELSE (IF first THEN <<>> ELSE <<"\n">>) \o sysContentParts[k].text
         \o joinTextParts(sysContentParts, k + 1, FALSE)

\* this.getSystemPrompt(markdownFile): [isNull, prompt, notices], the prompt
\* or null, and the notices shown on the way
getSystemPrompt(markdownFile, env) ==
    LET systemPromptFilename == getRequestedSystemPromptFile(markdownFile)
        systemPromptFile == getFileByPath(systemPromptFilename)
        parsed(sysContentParts) ==
            IF sysContentParts.ok
            THEN [isNull |-> FALSE,
                  prompt |-> joinTextParts(sysContentParts.parts, 1, TRUE),
                  notices |-> <<>>]
            ELSE [isNull |-> TRUE, prompt |-> <<>>,
                  notices |-> <<"Error parsing system prompt file">>]
    IN  IF systemPromptFilename = <<>>
        THEN [isNull |-> FALSE, prompt |-> settings.systemPrompt, notices |-> <<>>]
        ELSE IF systemPromptFile = <<>>
        THEN [isNull |-> TRUE, prompt |-> <<>>,
              notices |-> <<"AI Chat as MD could not read system prompt file">>]
        ELSE parsed(convertRangeToContentParts(Null, Null, systemPromptFile, TRUE, env))

Init ==
    /\ doc \in Docs
    /\ cursor \in {[line |-> l, ch |-> 0] : l \in 0..lastLine(doc)}
    /\ cache \in {FileCache(doc), NullCache}
    /\ settings \in {[systemPrompt |-> sp, systemPromptFile |-> <<>>,
                       showUsedModel |-> b, model |-> <<"g">>] :
                        sp \in {<<>>, <<"S">>}, b \in BOOLEAN}
    /\ pc = "idle"
    /\ mhe = NoMhe
    /\ requests = <<>>
    /\ notices = <<>>
    /\ stream = NoStream
    /\ args = <<>>
    /\ ret = <<>>
    /\ alone = NoMhe
    /\ anchor = cursor
    /\ view \in Views
    /\ calls = <<>>

\* complete-thread: view.file is null
CompleteThreadNoFile ==
    /\ pc = "idle"
    /\ notices' = Append(notices, "No markdown file open")
    /\ pc' = "done"
    /\ UNCHANGED <<doc, cursor, cache, settings, mhe, requests, stream, args, ret, alone,
                   anchor, view, calls>>

\* complete-thread: getSystemPrompt() gives null or an empty prompt
CompleteThreadNoPrompt ==
    /\ pc = "idle"
    /\ \E env \in Envs :
          LET nothing(systemPrompt) ==
                  /\ systemPrompt.prompt = <<>>
                  /\ notices' = notices \o systemPrompt.notices
          IN  nothing(getSystemPrompt(Note, env))
    /\ pc' = "done"
    /\ UNCHANGED <<doc, cursor, cache, settings, mhe, requests, stream, args, ret, alone,
                   anchor, view, calls>>

\* Mutant: the AI heading is written before the conversion is known to work.
CompleteThreadError_headingFirst ==
    /\ pc = "idle"
    /\ \E env \in Envs :
          LET throws(systemPrompt, r) == systemPrompt # <<>> /\ ~r.ok /\ mhe' = r
              convert(systemPrompt) ==
                  throws(systemPrompt, convertCurrentThreadToMessages(Note, systemPrompt, env))
          IN  convert(getSystemPrompt(Note, env).prompt)
    /\ LET ed == replaceRangeMoveCursor([doc |-> doc, cursor |-> cursor],
                     aiHeading(1, settings.showUsedModel, settings.model))
       IN  /\ doc' = ed.doc
           /\ cursor' = ed.cursor
           /\ anchor' = ed.cursor
    /\ calls' = Append(calls, Call("replaceRangeMoveCursor",
                                   aiHeading(1, settings.showUsedModel, settings.model)))
    /\ notices' = Append(notices, "Error converting thread to messages")
    /\ pc' = "failed"
    /\ UNCHANGED <<cache, settings, requests, stream, args, ret, alone, view>>

\* complete-thread: convertCurrentThreadToMessages() throws
CompleteThreadError ==
    /\ pc = "idle"
    /\ \E env \in Envs :
          LET throws(systemPrompt, r) == systemPrompt # <<>> /\ ~r.ok /\ mhe' = r
              convert(systemPrompt) ==
                  throws(systemPrompt, convertCurrentThreadToMessages(Note, systemPrompt, env))
          IN  convert(getSystemPrompt(Note, env).prompt)
    /\ notices' = Append(notices, "Error converting thread to messages")
    /\ pc' = "failed"
    /\ UNCHANGED <<doc, cursor, cache, settings, requests, stream, args, ret, alone,
                   anchor, view, calls>>

\* complete-thread: convertCurrentThreadToMessages() returns
CompleteThreadConverted ==
    /\ pc = "idle"
    /\ \E env \in Envs :
          LET returns(systemPrompt, r) == systemPrompt # <<>> /\ r.ok /\ mhe' = r
              convert(systemPrompt) ==
                  returns(systemPrompt, convertCurrentThreadToMessages(Note, systemPrompt, env))
          IN  convert(getSystemPrompt(Note, env).prompt)
    /\ pc' = "converted"
    /\ UNCHANGED <<doc, cursor, cache, settings, requests, notices, stream, args, ret,
                   alone, anchor, view, calls>>

\* complete-thread: the cursor moves to rangeEnd, the AI heading is written,
\* the view is switched to source mode if need be and the request is made
CompleteThreadRequest ==
    /\ pc = "converted"
    /\ LET aiLevel == mhe.heading.level + 1
           heading == aiHeading(aiLevel, settings.showUsedModel, settings.model)
           ed == replaceRangeMoveCursor([doc |-> doc, cursor |-> mhe.rangeEnd], heading)
           switch == maybeSwitchToSourceMode(view)
       IN  /\ doc' = ed.doc
           /\ cursor' = ed.cursor
           /\ anchor' = ed.cursor
           /\ view' = switch.view
           /\ stream' = [NoStream EXCEPT !.didSwitchMode = switch.didSwitch]
           /\ calls' = calls \o <<Call("setCursor", <<>>),
                                   Call("replaceRangeMoveCursor", heading)>>
                              \o switchCalls(switch.didSwitch, TRUE)
                              \o <<Call("getOpenAIStream", <<>>)>>
    /\ requests' = Append(requests, [messages |-> mhe.messages, model |-> settings.model])
    /\ pc' = "streaming"
    /\ UNCHANGED <<cache, settings, mhe, notices, args, ret, alone>>

\* complete-thread: a chunk of the reply arrives
StreamChunk(chunk) ==
    /\ pc = "streaming"
    /\ stream.chunks < MaxChunks
    /\ LET ed == replaceRangeMoveCursor([doc |-> doc, cursor |-> cursor], chunk.content)
       IN  /\ doc' = ed.doc
           /\ cursor' = ed.cursor
           /\ anchor' = ed.cursor
    /\ calls' = Append(calls, Call("replaceRangeMoveCursor", chunk.content))
    /\ stream' = [stream EXCEPT !.chunks = @ + 1,
                                !.roc = extractSearchResultsOrCitations(chunk, @)]
    /\ UNCHANGED <<cache, settings, pc, mhe, requests, notices, args, ret, alone, view>>

\* Mutant: after an error the callback returns at once.
FinishThread_abandons(didError) ==
    /\ pc = "streaming"
    /\ LET aiLevel == mhe.heading.level + 1
           cited == renderSearchResultsOrCitations(stream.roc, [doc |-> doc, cursor |-> cursor])
           ed == IF didError THEN [doc |-> doc, cursor |-> cursor]
                 ELSE replaceRangeMoveCursor(cited, userHeading(aiLevel))
       IN  /\ doc' = ed.doc
           /\ cursor' = ed.cursor
           /\ anchor' = ed.cursor
           /\ calls' = IF didError THEN Append(calls, Call("handleOpenAIError", <<>>))
                       ELSE calls \o citationCalls(stream.roc)
                                  \o <<Call("replaceRangeMoveCursor", userHeading(aiLevel))>>
                                  \o switchCalls(stream.didSwitchMode, FALSE)
    /\ view' = maybeSwitchBackToPreviewMode(view, stream.didSwitchMode)
    /\ notices' = IF didError
                  THEN Append(notices, "An error occurred while communicating with the OpenAI-style service")
                  ELSE notices
    /\ pc' = "done"
    /\ UNCHANGED <<cache, settings, mhe, requests, stream, args, ret, alone>>

\* what the callback does after the try block: citations, the User heading
\* (didError: the request or the stream threw and handleOpenAIError() ran)
FinishThread(didError) ==
    /\ pc = "streaming"
    /\ LET aiLevel == mhe.heading.level + 1
           cited == renderSearchResultsOrCitations(stream.roc, [doc |-> doc, cursor |-> cursor])
           ed == replaceRangeMoveCursor(cited, userHeading(aiLevel))
       IN  /\ doc' = ed.doc
           /\ cursor' = ed.cursor
           /\ anchor' = ed.cursor
           /\ calls' = calls \o (IF didError THEN <<Call("handleOpenAIError", <<>>)>>
                                  ELSE <<>>)
                              \o citationCalls(stream.roc)
                              \o <<Call("replaceRangeMoveCursor", userHeading(aiLevel))>>
                              \o switchCalls(stream.didSwitchMode, FALSE)
    /\ view' = maybeSwitchBackToPreviewMode(view, stream.didSwitchMode)
    /\ notices' = IF didError
                  THEN Append(notices, "An error occurred while communicating with the OpenAI-style service")
                  ELSE notices
    /\ pc' = "done"
    /\ UNCHANGED <<cache, settings, mhe, requests, stream, args, ret, alone>>

\* complete-thread: the stream ends
StreamEnd == FinishThread(FALSE)

\* complete-thread: getOpenAIStream() or the stream throws
StreamError == FinishThread(TRUE)

Next ==
    \/ CompleteThreadNoFile
    \/ CompleteThreadNoPrompt
    \/ CompleteThreadError
    \/ CompleteThreadConverted
    \/ CompleteThreadRequest
    \/ \E chunk \in Chunks : StreamChunk(chunk)
    \/ StreamEnd
    \/ StreamError

Spec == Init /\ [][Next]_vars

----------------------------------------------------------------------------
(* completeSelection: the commands "Send selected text to AI and append    *)
(* the response" and "... and replace it with the response".               *)

Modes == {"append", "replace"}

\* the argument mode of completeSelection() and its local variables
Selecting(mode) == [mode |-> mode, selStartOffset |-> 0, selEndOffset |-> 0]

\* editor.somethingSelected()
somethingSelected == anchor # cursor

\* Mutant: the offsets of the selection are taken as they come, the anchor
\* first.
selOffsets_unsorted ==
    [from |-> posToOffset(doc, anchor), to |-> posToOffset(doc, cursor)]

\* [editor.getCursor("from"), editor.getCursor("to")].map(posToOffset).sort()
selOffsets ==
    LET a == posToOffset(doc, anchor)
        h == posToOffset(doc, cursor)
    IN  [from |-> Min(a, h), to |-> Max(a, h)]

\* the messages of the request: [ok, messages, notices]
selectionMessages(env) ==
    LET built(systemPrompt, contentParts) ==
            [ok |-> ~systemPrompt.isNull /\ systemPrompt.prompt # <<>> /\ contentParts.ok,
             prompt |-> systemPrompt.prompt,
             messages |-> initMessages(systemPrompt.prompt)
                          \o <<PartsMessage("user", contentParts.parts)>>,
             notices |-> systemPrompt.notices]
    IN  built(getSystemPrompt(Note, env),
              convertRangeToContentParts(selOffsets.from, selOffsets.to, Note, TRUE, env))

\* nothing is selected
CompleteSelectionNothing ==
    /\ pc = "idle"
    /\ args.mode \in Modes
    /\ ~somethingSelected
    /\ pc' = "returned"
    /\ UNCHANGED <<doc, cursor, cache, settings, mhe, requests, notices, stream, args, ret,
                   alone, anchor, view, calls>>

\* view.file is null
CompleteSelectionNoFile ==
    /\ pc = "idle"
    /\ args.mode \in Modes
    /\ somethingSelected
    /\ notices' = Append(notices, "No markdown file open")
    /\ pc' = "returned"
    /\ UNCHANGED <<doc, cursor, cache, settings, mhe, requests, stream, args, ret, alone,
                   anchor, view, calls>>

\* getFileCache() gives null
CompleteSelectionNoCache ==
    /\ pc = "idle"
    /\ args.mode \in Modes
    /\ somethingSelected
    /\ ~cache.avail
    /\ pc' = "returned"
    /\ UNCHANGED <<doc, cursor, cache, settings, mhe, requests, notices, stream, args, ret,
                   alone, anchor, view, calls>>

\* getSystemPrompt() gives null or an empty prompt
CompleteSelectionNoPrompt ==
    /\ pc = "idle"
    /\ args.mode \in Modes
    /\ somethingSelected
    /\ cache.avail
    /\ \E env \in Envs :
          LET nothing(systemPrompt) ==
                  /\ systemPrompt.prompt = <<>>
                  /\ notices' = notices \o systemPrompt.notices
          IN  nothing(getSystemPrompt(Note, env))
    /\ pc' = "returned"
    /\ UNCHANGED <<doc, cursor, cache, settings, mhe, requests, stream, args, ret, alone,
                   anchor, view, calls>>

\* convertRangeToContentParts() throws
CompleteSelectionError ==
    /\ pc = "idle"
    /\ args.mode \in Modes
    /\ somethingSelected
    /\ cache.avail
    /\ \E env \in Envs :
          LET throws(m) == m.prompt # <<>> /\ ~m.ok
          IN  throws(selectionMessages(env))
    /\ notices' = Append(notices, "Error converting selection to OpenAI-style messages")
    /\ pc' = "failed"
    /\ UNCHANGED <<doc, cursor, cache, settings, mhe, requests, stream, args, ret, alone,
                   anchor, view, calls>>

\* the messages are built, the view is switched to source mode if need be
\* and the request is made
CompleteSelectionRequest ==
    /\ pc = "idle"
    /\ args.mode \in Modes
    /\ somethingSelected
    /\ cache.avail
    /\ \E env \in Envs :
          LET sends(m) ==
                  /\ m.ok
                  /\ requests' = Append(requests, [messages |-> m.messages,
                                                   model |-> settings.model])
          IN  sends(selectionMessages(env))
    /\ LET switch == maybeSwitchToSourceMode(view)
       IN  /\ view' = switch.view
           /\ stream' = [NoStream EXCEPT !.didSwitchMode = switch.didSwitch]
           /\ calls' = calls \o switchCalls(switch.didSwitch, TRUE)
                              \o <<Call("getOpenAIStream", <<>>)>>
    /\ args' = [args EXCEPT !.selStartOffset = selOffsets.from,
                            !.selEndOffset = selOffsets.to]
    /\ pc' = "opening"
    /\ UNCHANGED <<doc, cursor, cache, settings, mhe, notices, ret, alone, anchor>>

\* getOpenAIStream() returns the stream: the place of the reply is prepared
CompleteSelectionOpened ==
    /\ pc = "opening"
    /\ IF args.mode = "append"
       THEN LET ed == replaceRangeMoveCursor(
                          [doc |-> doc, cursor |-> offsetToPos(doc, args.selEndOffset)],
                          <<"\n", "\n">>)
            IN  /\ doc' = ed.doc
                /\ cursor' = ed.cursor
                /\ anchor' = ed.cursor
                /\ calls' = calls \o <<Call("setCursor", <<>>),
                                        Call("replaceRangeMoveCursor", <<"\n", "\n">>)>>
       ELSE /\ doc' = slice(doc, 0, selOffsets.from) \o slice(doc, selOffsets.to, Len(doc))
            /\ cursor' = offsetToPos(doc, selOffsets.from)
            /\ anchor' = offsetToPos(doc, selOffsets.from)
            /\ calls' = Append(calls, Call("replaceSelection", <<>>))
    /\ pc' = "replying"
    /\ UNCHANGED <<cache, settings, mhe, requests, notices, stream, args, ret, alone, view>>

\* a chunk of the reply arrives
SelectionChunk(chunk) ==
    /\ pc = "replying"
    /\ stream.chunks < MaxChunks
    /\ LET ed == replaceRangeMoveCursor([doc |-> doc, cursor |-> cursor], chunk.content)
       IN  /\ doc' = ed.doc
           /\ cursor' = ed.cursor
           /\ anchor' = ed.cursor
    /\ calls' = Append(calls, Call("replaceRangeMoveCursor", chunk.content))
    /\ stream' = [stream EXCEPT !.chunks = @ + 1,
                                !.roc = extractSearchResultsOrCitations(chunk, @)]
    /\ UNCHANGED <<cache, settings, pc, mhe, requests, notices, args, ret, alone, view>>

\* what completeSelection() does after the try block: citations, a newline
\* (didError: the request or the stream threw and handleOpenAIError() ran)
FinishSelection(didError) ==
    /\ LET cited == renderSearchResultsOrCitations(stream.roc, [doc |-> doc, cursor |-> cursor])
           ed == replaceRangeMoveCursor(cited, <<"\n">>)
       IN  /\ doc' = ed.doc
           /\ cursor' = ed.cursor
           /\ anchor' = ed.cursor
           /\ calls' = calls \o (IF didError THEN <<Call("handleOpenAIError", <<>>)>>
                                  ELSE <<>>)
                              \o citationCalls(stream.roc)
                              \o <<Call("replaceRangeMoveCursor", <<"\n">>)>>
                              \o switchCalls(stream.didSwitchMode, FALSE)
    /\ view' = maybeSwitchBackToPreviewMode(view, stream.didSwitchMode)
    /\ notices' = IF didError
                  THEN Append(notices, "An error occurred while communicating with the OpenAI-style service")
                  ELSE notices
    /\ pc' = "returned"
    /\ UNCHANGED <<cache, settings, mhe, requests, stream, args, ret, alone>>

\* the stream ends
SelectionEnd == pc = "replying" /\ FinishSelection(FALSE)

\* getOpenAIStream() throws
SelectionOpenError == pc = "opening" /\ FinishSelection(TRUE)

\* the stream throws
SelectionStreamError == pc = "replying" /\ FinishSelection(TRUE)

SelectionNext ==
    \/ CompleteSelectionNothing
    \/ CompleteSelectionNoFile
    \/ CompleteSelectionNoCache
    \/ CompleteSelectionNoPrompt
    \/ CompleteSelectionError
    \/ CompleteSelectionRequest
    \/ CompleteSelectionOpened
    \/ \E chunk \in Chunks : SelectionChunk(chunk)
    \/ SelectionEnd
    \/ SelectionOpenError
    \/ SelectionStreamError

\* every position of the editor
Positions(text) == {offsetToPos(text, offset) : offset \in 0..Len(text)}

\* a heading with a line of text, a text that ends in an image, an embedded
\* note alone, and a line of text before an image
CommandDocs ==
    {JoinLines(<<LineQ, LineText>>), LineText \o LineImage, LineNote,
     JoinLines(<<LineText, LineImage>>)}

\* one of the three commands is invoked, with any selection
CommandInit ==
    /\ doc \in CommandDocs
    /\ cursor \in Positions(doc)
    /\ anchor \in Positions(doc)
    /\ cache \in {FileCache(doc), NullCache}
    /\ settings \in {[systemPrompt |-> sp, systemPromptFile |-> <<>>,
                       showUsedModel |-> FALSE, model |-> <<"g">>] :
                        sp \in {<<>>, <<"S">>}}
    /\ pc = "idle"
    /\ mhe = NoMhe
    /\ requests = <<>>
    /\ notices = <<>>
    /\ stream = NoStream
    /\ args \in {Selecting(mode) : mode \in Modes}
    /\ ret = <<>>
    /\ alone = NoMhe
    /\ view \in Views
    /\ calls = <<>>

CommandNext == Next \/ SelectionNext

SpecCommands == CommandInit /\ [][CommandNext]_vars

----------------------------------------------------------------------------
(* Specification of the commands when the system prompt can come from a    *)
(* file, named in the settings or in the frontmatter of the note.          *)

\* what the frontmatter and the settings give as the prompt file: a note
\* that embeds a note, a note with an image, a path of no file, and, in
\* the frontmatter, the empty string
PromptPaths ==
    {<<"m", ".", "m", "d">>, <<"r", ".", "m", "d">>, <<"x", ".", "m", "d">>}

FrontmatterValues == PromptPaths \cup {<<"\"", "\"">>}

\* the note "# Q\nHi" under a frontmatter block with the key
FrontmatterDoc(value) ==
    JoinLines(<<FrontmatterFence, PromptFileKey \o <<":", " ">> \o value,
                FrontmatterFence, LineQ, LineText>>)

PromptDocs ==
    {JoinLines(<<LineQ, LineText>>), JoinLines(<<LineQ, LineNote>>)}
    \cup {FrontmatterDoc(v) : v \in FrontmatterValues}

\* one of the three commands is invoked with the cursor at the end of the
\* note, its last line selected or nothing selected
PromptInit ==
    /\ doc \in PromptDocs
    /\ cursor = offsetToPos(doc, Len(doc))
    /\ anchor \in {cursor, [cursor EXCEPT !.ch = 0]}
    /\ cache \in {FileCache(doc), NullCache}
    /\ settings \in {[systemPrompt |-> sp, systemPromptFile |-> file,
                       showUsedModel |-> FALSE, model |-> <<"g">>] :
                        sp \in {<<>>, <<"S">>}, file \in {<<>>} \cup PromptPaths}
    /\ pc = "idle"
    /\ mhe = NoMhe
    /\ requests = <<>>
    /\ notices = <<>>
    /\ stream = NoStream
    /\ args \in {Selecting(mode) : mode \in Modes}
    /\ ret = <<>>
    /\ alone = NoMhe
    /\ view = NoView
    /\ calls = <<>>

SpecPrompt == PromptInit /\ [][CommandNext]_vars

----------------------------------------------------------------------------
(* Specification of replaceRangeMoveCursor: calls one after the other on   *)
(* an editor nothing else changes.                                         *)

LineAb == <<"a", "b">>

ReplaceDocs ==
    {JoinLines(ls) : ls \in UNION {[1..n -> {LineEmpty, LineAb}] : n \in 1..MaxDocLines}}

\* the texts written: empty, one line, lines, a text that ends a line and
\* one that starts a line
ReplaceTexts ==
    {<<>>, <<"c">>, <<"c", "\n", "d", "e">>, <<"c", "\n">>, <<"\n", "c">>}

\* args holds the editor as it is before the first call
ReplaceInit ==
    /\ doc \in ReplaceDocs
    /\ cursor \in Positions(doc)
    /\ cache = FileCache(doc)
    /\ settings = NoSettings
    /\ pc = "editing"
    /\ mhe = NoMhe
    /\ requests = <<>>
    /\ notices = <<>>
    /\ stream = NoStream
    /\ args = [doc |-> doc, cursor |-> cursor]
    /\ ret = <<>>
    /\ alone = NoMhe
    /\ anchor = cursor
    /\ view = NoView
    /\ calls = <<>>

\* replaceRangeMoveCursor(editor, text) is called
ReplaceCall(text) ==
    /\ pc = "editing"
    /\ stream.chunks < MaxChunks
    /\ LET ed == replaceRangeMoveCursor([doc |-> doc, cursor |-> cursor], text)
       IN  /\ doc' = ed.doc
           /\ cursor' = ed.cursor
           /\ anchor' = ed.cursor
    /\ calls' = Append(calls, Call("replaceRangeMoveCursor", text))
    /\ stream' = [stream EXCEPT !.chunks = @ + 1]
    /\ UNCHANGED <<cache, settings, pc, mhe, requests, notices, args, ret, alone, view>>

ReplaceNext == \E text \in ReplaceTexts : ReplaceCall(text)

SpecReplace == ReplaceInit /\ [][ReplaceNext]_vars

----------------------------------------------------------------------------
(* Specification of getHeadingPathToCursor over heading lists.             *)

\* a HeadingCache of which only the start line and the level matter
LineHeading(line, level) ==
    [heading  |-> <<>>,
     level    |-> level,
     position |-> [start |-> [line |-> line, col |-> 0, offset |-> 0],
                   end   |-> [line |-> line, col |-> 0, offset |-> 0]]]

\* the heading list with a heading of level f[n] on every line n with f[n] > 0
HeadingList(f) ==
    LET ls == SortedSeq({n \in DOMAIN f : f[n] > 0})
    IN  [k \in 1..Len(ls) |-> LineHeading(ls[k], f[ls[k]])]

\* spec.md, path minimality: (L1, level 1), (L2, level 2), (L4, level 1), (L5, level 4)
ExamplePathArgs ==
    [headings   |-> <<LineHeading(1, 1), LineHeading(2, 2),
                      LineHeading(4, 1), LineHeading(5, 4)>>,
     cursorLine |-> 5]

PathArgs ==
    {[headings |-> HeadingList(f), cursorLine |-> c] :
        f \in [0..MaxLine -> 0..MaxLevel], c \in 0..MaxLine}
    \cup {ExamplePathArgs}

PathInit ==
    /\ NoCommand
    /\ args \in PathArgs
    /\ ret = [done |-> FALSE, headingPath |-> <<>>]

PathCall ==
    /\ ~ret.done
    /\ ret' = [done |-> TRUE,
               headingPath |-> getHeadingPathToCursor(args.headings, args.cursorLine)]
    /\ UNCHANGED <<doc, cursor, cache, settings, pc, mhe, requests, notices, stream, args,
                   alone, anchor, view, calls>>

PathNext == PathCall

SpecPath == PathInit /\ [][PathNext]_vars

----------------------------------------------------------------------------
(* Claims about the heading path.                                          *)

\* indices of the headings that start at or before the line
AtOrBefore(headings, line) ==
    {i \in 0..Len(headings) - 1 : At(headings, i).position.start.line <= line}

\* indices of the headings before heading i with a strictly smaller level
Shallower(headings, i) ==
    {j \in 0..i - 1 : At(headings, j).level < At(headings, i).level}

IsAncestorChain(headings, cursorLine, p) ==
    /\ Len(p) >= 1
    /\ p[Len(p)] = SetMax(AtOrBefore(headings, cursorLine))
    /\ \A k \in 1..Len(p) - 1 :
          /\ Shallower(headings, p[k + 1]) # {}
          /\ p[k] = SetMax(Shallower(headings, p[k + 1]))
    /\ Shallower(headings, p[1]) = {}

\* C1: when some heading starts at or before the cursor line, the path is
\* exactly the ancestor chain: it ends with the last heading at or before the
\* cursor, every earlier entry is the nearest preceding heading of strictly
\* smaller level than its successor, and it stops only when no such heading
\* is left; on the example of spec.md the path is [index(L4), index(L5)].
C1_AncestorChain ==
    ret.done =>
        /\ AtOrBefore(args.headings, args.cursorLine) # {}
              => IsAncestorChain(args.headings, args.cursorLine, ret.headingPath)
        /\ args = ExamplePathArgs => ret.headingPath = <<2, 3>>

C1_Witness ==
    /\ ret.done
    /\ args = ExamplePathArgs
    /\ ret.headingPath = <<2, 3>>

\* C2: along the path the heading levels and the indices increase strictly,
\* and every heading of it starts at or before the cursor line.
C2_PathIncreasing ==
    ret.done =>
        LET p == ret.headingPath
        IN  /\ \A k \in 1..Len(p) - 1 :
                  /\ At(args.headings, p[k]).level < At(args.headings, p[k + 1]).level
                  /\ p[k] < p[k + 1]
            /\ \A k \in 1..Len(p) :
                  /\ p[k] \in 0..Len(args.headings) - 1
                  /\ At(args.headings, p[k]).position.start.line <= args.cursorLine

C2_Witness ==
    /\ ret.done
    /\ Len(ret.headingPath) = 3
    /\ Len(args.headings) = 5
    /\ \E k \in 1..2 : ret.headingPath[k + 1] > ret.headingPath[k] + 1
    /\ At(args.headings, 4).position.start.line > args.cursorLine

----------------------------------------------------------------------------
(* Sections of a note, read off its lines.                                 *)

\* the lines after heading i up to the next heading (or the end), with the
\* newlines between them
SectionText(headings, i, text) ==
    LET first == At(headings, i).position.start.line + 1
        last  == IF i + 1 < Len(headings)
                 THEN At(headings, i + 1).position.start.line - 1
                 ELSE lastLine(text)
    IN  JoinLines([n \in 1..last - first + 1 |-> getLine(text, first + n - 1)])

----------------------------------------------------------------------------
(* Specification of getHeadingRange and convertRangeToContentParts over    *)
(* notes and arbitrary ranges of them.                                     *)

LineA      == <<"a">>
LineBroken == <<"!", "[", "[", "z", "]", "]">>
LineInline == <<"b", " ", "!", "[", "[", "p", "]", "]", " ", "c">>

RangeLines == {LineA, LineImage, LineNote, LineBroken, LineInline, LineQ, LineEmpty}

\* spec.md, range boundary exactness: heading A ends at offset 100 and the
\* next heading B starts at offset 150
BoundaryDoc ==
    JoinLines(<< <<"#", " ">> \o [k \in 1..98 |-> "x"],
                 [k \in 1..48 |-> "y"],
                 <<"#", " ", "B">>,
                 <<"z">> >>)

RangeDocs ==
    {JoinLines(ls) : ls \in UNION {[1..n -> RangeLines] : n \in 1..MaxRangeLines}}

NoRange == [rangeStartOffset |-> 0, rangeEnd |-> [line |-> 0, ch |-> 0], rangeEndOffset |-> 0]
NoParts == [ok |-> FALSE, error |-> "", parts |-> <<>>, reads |-> <<>>]
NoArgs == [fn |-> "", startOffset |-> 0, endOffset |-> 0, base64Images |-> FALSE, i |-> 0]

RangeInit ==
    /\ doc \in RangeDocs \cup {BoundaryDoc}
    /\ cache \in {FileCache(doc), NullCache}
    /\ cursor = [line |-> 0, ch |-> 0]
    /\ settings = NoSettings
    /\ pc = "off"
    /\ mhe = NoMhe
    /\ requests = <<>>
    /\ notices = <<>>
    /\ stream = NoStream
    /\ args = NoArgs
    /\ ret = [parts |-> NoParts, range |-> NoRange]
    /\ alone = NoMhe
    /\ anchor = cursor
    /\ view = NoView
    /\ calls = <<>>

\* the offsets a caller passes: null, or any offset of the text, the end not
\* more than one before the start (the long note of the boundary example is
\* left to getHeadingRange)
RangeCallConvert ==
    /\ args.fn = ""
    /\ doc # BoundaryDoc
    /\ \E startOffset \in {Null} \cup 0..Len(doc) + 1,
          endOffset \in {Null} \cup 0..Len(doc),
          base64Images \in BOOLEAN, env \in Envs :
          /\ (startOffset # Null /\ endOffset # Null) => startOffset <= endOffset + 1
          /\ args' = [fn |-> "convertRangeToContentParts", startOffset |-> startOffset,
                      endOffset |-> endOffset, base64Images |-> base64Images, i |-> 0]
          /\ ret' = [ret EXCEPT !.parts =
                        convertRangeToContentParts(startOffset, endOffset, Note,
                                                   base64Images, env)]
    /\ UNCHANGED <<doc, cursor, cache, settings, pc, mhe, requests, notices, stream, alone,
                   anchor, view, calls>>

RangeCallHeading ==
    /\ args.fn = ""
    /\ \E i \in 0..Len(cache.headings) - 1 :
          /\ args' = [args EXCEPT !.fn = "getHeadingRange", !.i = i]
          /\ ret' = [ret EXCEPT !.range = getHeadingRange(cache.headings, i, doc)]
    /\ UNCHANGED <<doc, cursor, cache, settings, pc, mhe, requests, notices, stream, alone,
                   anchor, view, calls>>

RangeNext == RangeCallConvert \/ RangeCallHeading

SpecRange == RangeInit /\ [][RangeNext]_vars

----------------------------------------------------------------------------
(* Claims about ranges.                                                    *)

\* C5: the range of heading i starts one past the end offset of its line and
\* ends one before the start offset of the next heading, of whatever level,
\* or at the length of the text when no heading follows; the text in it is
\* the lines between the two headings, so no heading starts inside it.  With
\* A ending at offset 100 and B starting at 150 the range is [101, 149).
C5_HeadingRange ==
    args.fn = "getHeadingRange" =>
        LET headings == cache.headings
            i == args.i
            r == ret.range
        IN  /\ r.rangeStartOffset = At(headings, i).position.end.offset + 1
            /\ i + 1 < Len(headings) =>
                  r.rangeEndOffset = At(headings, i + 1).position.start.offset - 1
            /\ i + 1 = Len(headings) => r.rangeEndOffset = Len(doc)
            /\ slice(doc, r.rangeStartOffset, r.rangeEndOffset) = SectionText(headings, i, doc)
            /\ \A j \in 0..Len(headings) - 1 :
                  ~(/\ r.rangeStartOffset <= At(headings, j).position.start.offset
                    /\ At(headings, j).position.start.offset < r.rangeEndOffset)
            /\ (doc = BoundaryDoc /\ i = 0) =>
                  /\ At(headings, 0).position.end.offset = 100
                  /\ At(headings, 1).position.start.offset = 150
                  /\ r.rangeStartOffset = 101
                  /\ r.rangeEndOffset = 149

C5_Witness ==
    /\ args.fn = "getHeadingRange"
    /\ doc = BoundaryDoc
    /\ args.i = 0
    /\ ret.range.rangeStartOffset = 101
    /\ ret.range.rangeEndOffset = 149

\* the range of the call, nulls resolved
CallStart == IF args.startOffset = Null THEN 0 ELSE args.startOffset
CallEnd == IF args.endOffset = Null THEN Len(doc) ELSE args.endOffset

Contained(embed) ==
    /\ embed.position.start.offset >= CallStart
    /\ embed.position.end.offset <= CallEnd

IsImagePart(part) == part.type \in {"image_url", "image_buffer"}

\* C10: only the embeds with start >= range start and end <= range end are
\* considered.  The result is the one the call gives when every other embed
\* is no embed at all but ordinary text, and it has no more image parts than
\* the range contains embeds of images.
C10_EmbedContainment ==
    (args.fn = "convertRangeToContentParts" /\ cache.avail) =>
        /\ \E env \in Envs :
              ret.parts = contentPartsOf(SelectSeq(cache.embeds, Contained), doc,
                                         args.startOffset, args.endOffset,
                                         args.base64Images, env)
        /\ ret.parts.ok =>
              Len(SelectSeq(ret.parts.parts, IsImagePart))
                  <= Len(SelectSeq(cache.embeds,
                                   LAMBDA e : Contained(e) /\ e.link \in ImageFiles))

\* the range ends one character before the end of an image embed: the embed
\* gives no image, its text inside the range is a text part
C10_Witness ==
    /\ args.fn = "convertRangeToContentParts"
    /\ args.base64Images
    /\ \E k \in 1..Len(cache.embeds) :
          /\ cache.embeds[k].link = <<"p">>
          /\ cache.embeds[k].position.start.offset = CallStart
          /\ cache.embeds[k].position.end.offset = CallEnd + 1
    /\ ret.parts.ok
    /\ ret.parts.parts = <<ContentText(<<"!", "[", "[", "p", "]">>)>>

----------------------------------------------------------------------------
(* Specification of the two conversions over notes made of texts and       *)
(* embeds: what the split keeps of the text around an embed, and what the  *)
(* resolution of each embed reads and gives.                               *)

TextNone  == <<>>
TextTight == <<"a">>
TextLoose == <<" ", "b", " ">>

\* the text before, between and after embeds: none, a character that touches
\* the embeds around it, or a character set off by spaces
GapTexts == {TextNone, TextTight, TextLoose}

\* the links embedded: an image, a note that embeds a note, a link to nothing,
\* a note that embeds itself and the note in the editor, a file of another type
EmbedLinks == {<<"p">>, <<"m">>, <<"z">>, <<"s">>, <<"q">>}

EmbedOf(link) == <<"!", "[", "[">> \o link \o <<"]", "]">>

\* texts[0] ![[links[1]]] texts[1] ... ![[links[n]]] texts[n], from embed k on
RECURSIVE BodyFrom(_, _, _)
BodyFrom(texts, links, k) ==
    IF k > Len(links) THEN <<>>
    ELSE EmbedOf(links[k]) \o texts[k] \o BodyFrom(texts, links, k + 1)

Bodies ==
    UNION {{texts[0] \o BodyFrom(texts, links, 1) :
               texts \in [0..n -> GapTexts], links \in [1..n -> EmbedLinks]} :
           n \in 0..MaxEmbeds}

\* the same under a heading, as a user turn
HeadDoc(body) == JoinLines(<<LineQ, body>>)

EmbedDocs == Bodies \cup {HeadDoc(body) : body \in Bodies}

NoEnv == [images |-> {}, texts |-> {}]
NoCall == [fn |-> "", startOffset |-> Null, endOffset |-> Null,
           base64Images |-> FALSE, env |-> NoEnv]

EmbedInit ==
    /\ doc \in EmbedDocs
    /\ cache \in {FileCache(doc), NullCache}
    /\ cursor = [line |-> lastLine(doc), ch |-> 0]
    /\ settings = NoSettings
    /\ pc = "off"
    /\ mhe = NoMhe
    /\ requests = <<>>
    /\ notices = <<>>
    /\ stream = NoStream
    /\ args = NoCall
    /\ ret = [parts |-> NoParts, thread |-> NoMhe]
    /\ alone = NoMhe
    /\ anchor = cursor
    /\ view = NoView
    /\ calls = <<>>

\* the range a caller passes: the whole note (null, null) or, under a
\* heading, the range of the heading
CallRange ==
    IF cache.avail /\ Len(cache.headings) > 0
    THEN getHeadingRange(cache.headings, 0, doc)
    ELSE [rangeStartOffset |-> Null, rangeEnd |-> [line |-> 0, ch |-> 0],
          rangeEndOffset |-> Null]

\* convertRangeToContentParts() is called
EmbedCallConvert ==
    /\ pc = "off"
    /\ \E base64Images \in BOOLEAN, env \in Envs :
          /\ args' = [fn |-> "convertRangeToContentParts",
                      startOffset |-> CallRange.rangeStartOffset,
                      endOffset |-> CallRange.rangeEndOffset,
                      base64Images |-> base64Images, env |-> env]
          /\ ret' = [ret EXCEPT !.parts =
                        convertRangeToContentParts(CallRange.rangeStartOffset,
                                                   CallRange.rangeEndOffset, Note,
                                                   base64Images, env)]
    /\ pc' = "called"
    /\ UNCHANGED <<doc, cursor, cache, settings, mhe, requests, notices, stream, alone,
                   anchor, view, calls>>

\* Mutant: the conversion leaves the cursor at the rangeEnd it returns.
EmbedCallThread_movesCursor ==
    /\ pc = "off"
    /\ \E env \in Envs :
          LET r == convertCurrentThreadToMessages(Note, <<"S">>, env)
          IN  /\ args' = [NoCall EXCEPT !.fn = "convertCurrentThreadToMessages",
                                        !.base64Images = TRUE, !.env = env]
              /\ ret' = [ret EXCEPT !.thread = r]
              /\ cursor' = IF r.ok THEN r.rangeEnd ELSE cursor
    /\ pc' = "called"
    /\ UNCHANGED <<doc, cache, settings, mhe, requests, notices, stream, alone, anchor,
                   view, calls>>

\* convertCurrentThreadToMessages() is called
EmbedCallThread ==
    /\ pc = "off"
    /\ \E env \in Envs :
          /\ args' = [NoCall EXCEPT !.fn = "convertCurrentThreadToMessages",
                                    !.base64Images = TRUE, !.env = env]
          /\ ret' = [ret EXCEPT !.thread =
                        convertCurrentThreadToMessages(Note, <<"S">>, env)]
    /\ pc' = "called"
    /\ UNCHANGED <<doc, cursor, cache, settings, mhe, requests, notices, stream, alone,
                   anchor, view, calls>>

\* the caller makes the same call once more, with the files as they were
EmbedCallAgain ==
    /\ pc = "called"
    /\ ret' = IF args.fn = "convertRangeToContentParts"
              THEN [ret EXCEPT !.parts =
                       convertRangeToContentParts(args.startOffset, args.endOffset, Note,
                                                  args.base64Images, args.env)]
              ELSE [ret EXCEPT !.thread =
                       convertCurrentThreadToMessages(Note, <<"S">>, args.env)]
    /\ pc' = "again"
    /\ UNCHANGED <<doc, cursor, cache, settings, mhe, requests, notices, stream, args,
                   alone, anchor, view, calls>>

EmbedNext == EmbedCallConvert \/ EmbedCallThread \/ EmbedCallAgain

SpecEmbed == EmbedInit /\ [][EmbedNext]_vars

----------------------------------------------------------------------------
(* Specification of the conversion over notes that embed "h", whole, by    *)
(* heading and by block.                                                   *)

\* links to "h": the whole note, its headings, a heading it does not have,
\* its block, a block it does not have
SubpathLinks ==
    {<<"h">>, <<"h", "#", "A">>, <<"h", "#", "B">>, <<"h", "#", "C">>,
     <<"h", "#", "Z">>, <<"h", "#", "^", "k">>, <<"h", "#", "^", "z">>}

\* ![[links[k]]] ![[links[k+1]]] ... on one line
RECURSIVE EmbedsFrom(_, _)
EmbedsFrom(links, k) ==
    IF k > Len(links) THEN <<>>
    ELSE (IF k > 1 THEN <<" ">> ELSE <<>>) \o EmbedOf(links[k]) \o EmbedsFrom(links, k + 1)

SubpathBodies ==
    UNION {{EmbedsFrom(links, 1) : links \in [1..n -> SubpathLinks]} : n \in 1..MaxEmbeds}

SubpathDocs == SubpathBodies \cup {HeadDoc(body) : body \in SubpathBodies}

SubpathInit ==
    /\ doc \in SubpathDocs
    /\ cache \in {FileCache(doc), NullCache}
    /\ cursor = [line |-> lastLine(doc), ch |-> 0]
    /\ settings = NoSettings
    /\ pc = "off"
    /\ mhe = NoMhe
    /\ requests = <<>>
    /\ notices = <<>>
    /\ stream = NoStream
    /\ args = NoCall
    /\ ret = [parts |-> NoParts, thread |-> NoMhe]
    /\ alone = NoMhe
    /\ anchor = cursor
    /\ view = NoView
    /\ calls = <<>>

SpecSubpath == SubpathInit /\ [][EmbedNext]_vars

\* The same calls when the order of cache.embeds is not known: any order of
\* the embeds of the note.
Orders(seq) ==
    {[k \in 1..Len(seq) |-> seq[f[k]]] :
        f \in {g \in [1..Len(seq) -> 1..Len(seq)] :
                  \A a, b \in 1..Len(seq) : a # b => g[a] # g[b]}}

OrderInit ==
    /\ doc \in Bodies
    /\ cache \in {[FileCache(doc) EXCEPT !.embeds = embeds] :
                     embeds \in Orders(ParseEmbeds(doc))}
    /\ cursor = [line |-> lastLine(doc), ch |-> 0]
    /\ settings = NoSettings
    /\ pc = "off"
    /\ mhe = NoMhe
    /\ requests = <<>>
    /\ notices = <<>>
    /\ stream = NoStream
    /\ args = NoCall
    /\ ret = [parts |-> NoParts, thread |-> NoMhe]
    /\ alone = NoMhe
    /\ anchor = cursor
    /\ view = NoView
    /\ calls = <<>>

SpecOrder == OrderInit /\ [][EmbedNext]_vars

----------------------------------------------------------------------------
(* Specification of one build of a thread, await by await: every           *)
(* vault.cachedRead() and imageToDataURL() the build issues, and its        *)
(* settling, is a step of its own.                                          *)

LineR == <<"#", "#", " ", "R">>

\* the embeds with these links, one on a line
EmbedLines(links) == [k \in 1..Len(links) |-> EmbedOf(links[k])]

\* "# Q" with up to MaxEmbeds embeds under it, and then nothing, or a user
\* or an assistant heading with at most one embed under it
LoadDocs ==
    {JoinLines(<<LineQ>> \o EmbedLines(first) \o rest) :
        first \in UNION {[1..n -> EmbedLinks] : n \in 0..MaxEmbeds},
        rest \in {<<>>} \cup {<<next>> \o EmbedLines(second) :
                                 next \in {LineR, LineAI},
                                 second \in UNION {[1..n -> EmbedLinks] : n \in 0..1}}}

\* the local variables of convertCurrentThreadToMessages() and of the
\* convertRangeToContentParts() it is awaiting
NoBuild ==
    [env |-> NoEnv, headings |-> <<>>, headingPath |-> <<>>, k |-> 0,
     rangeEnd |-> [line |-> 0, ch |-> 0], rangeStartOffset |-> 0, rangeEndOffset |-> Null,
     embeds |-> <<>>, parts |-> <<>>, j |-> 0, contentParts |-> <<>>, messages |-> <<>>]

\* the reads and image loads issued and not yet settled, and all of them in
\* the order they were issued and settled
NoLoads == [outstanding |-> <<>>, log |-> <<>>]

LoadInit ==
    /\ doc \in LoadDocs
    /\ cache \in {FileCache(doc), NullCache}
    /\ cursor \in {[line |-> l, ch |-> 0] : l \in {0, lastLine(doc)}}
    /\ settings = NoSettings
    /\ pc = "begin"
    /\ mhe = NoMhe
    /\ requests = <<>>
    /\ notices = <<>>
    /\ stream = NoStream
    /\ args \in {[NoBuild EXCEPT !.env = env] : env \in Envs}
    /\ ret = NoLoads
    /\ alone = convertCurrentThreadToMessages(Note, <<"S">>, args.env)
    /\ anchor = cursor
    /\ view = NoView
    /\ calls = <<>>

Started(file) == [op |-> "start", file |-> file]
Settled(file) == [op |-> "end", file |-> file]

\* the files of the reads and loads issued so far
RECURSIVE ReadsOf(_)
ReadsOf(log) ==
    IF log = <<>> THEN <<>>
    ELSE (IF Head(log).op = "start" THEN <<Head(log).file>> ELSE <<>>) \o ReadsOf(Tail(log))

\* a read or load is issued and awaited
Issue(file) ==
    ret' = [outstanding |-> Append(ret.outstanding, file),
            log |-> Append(ret.log, Started(file))]

\* the awaited read or load settles
Settle ==
    ret' = [outstanding |-> Tail(ret.outstanding),
            log |-> Append(ret.log, Settled(Head(ret.outstanding)))]

\* the cache is missing or no heading is at or before the cursor
LoadThrow ==
    /\ pc = "begin"
    /\ \/ ~cache.avail
       \/ Len(getHeadingPathToCursor(cache.headings, cursor.line)) = 0
    /\ mhe' = IF ~cache.avail THEN ThreadError("Could not find cache")
              ELSE ThreadError("No headings to work with")
    /\ pc' = "failed"
    /\ UNCHANGED <<doc, cursor, cache, settings, requests, notices, stream, args, ret,
                   alone, anchor, view, calls>>

\* headings, headingPath and messages are set up
LoadBegin ==
    /\ pc = "begin"
    /\ cache.avail
    /\ Len(getHeadingPathToCursor(cache.headings, cursor.line)) > 0
    /\ args' = [args EXCEPT !.headings = cache.headings,
                            !.headingPath = getHeadingPathToCursor(cache.headings, cursor.line),
                            !.messages = initMessages(<<"S">>)]
    /\ pc' = "heading"
    /\ UNCHANGED <<doc, cursor, cache, settings, mhe, requests, notices, stream, ret,
                   alone, anchor, view, calls>>

\* the next heading of the path is an assistant turn: nothing is awaited
LoadAssistantTurn ==
    /\ pc = "heading"
    /\ args.k < Len(args.headingPath)
    /\ LET i == At(args.headingPath, args.k)
           heading == At(args.headings, i)
           r == getHeadingRange(args.headings, i, doc)
       IN  /\ roleOf(heading.heading) = "assistant"
           /\ args' = [args EXCEPT
                         !.rangeEnd = r.rangeEnd,
                         !.rangeStartOffset = r.rangeStartOffset,
                         !.rangeEndOffset = r.rangeEndOffset,
                         !.messages = Append(@, StringMessage("assistant",
                             getRange(doc, [line |-> heading.position.end.line + 1, ch |-> 0],
                                      r.rangeEnd))),
                         !.k = @ + 1]
    /\ UNCHANGED <<doc, cursor, cache, settings, pc, mhe, requests, notices, stream, ret,
                   alone, anchor, view, calls>>

\* the next heading of the path is a user turn: convertRangeToContentParts()
\* is called and issues the read of the note
LoadUserTurn ==
    /\ pc = "heading"
    /\ args.k < Len(args.headingPath)
    /\ LET i == At(args.headingPath, args.k)
           heading == At(args.headings, i)
           r == getHeadingRange(args.headings, i, doc)
       IN  /\ roleOf(heading.heading) = "user"
           /\ getFileCache(Note).avail
           /\ args' = [args EXCEPT
                         !.rangeEnd = r.rangeEnd,
                         !.rangeStartOffset = r.rangeStartOffset,
                         !.rangeEndOffset = r.rangeEndOffset,
                         !.embeds = getFileCache(Note).embeds]
    /\ Issue(Note)
    /\ pc' = "reading"
    /\ UNCHANGED <<doc, cursor, cache, settings, mhe, requests, notices, stream, alone,
                   anchor, view, calls>>

\* the note was read: the range is split into texts and embeds
LoadNoteRead ==
    /\ pc = "reading"
    /\ Settle
    /\ args' = [args EXCEPT
                  !.parts = splitLoop(args.embeds, 0, args.rangeStartOffset,
                                      <<>>, cachedRead(Note),
                                      args.rangeStartOffset, args.rangeEndOffset),
                  !.j = 0,
                  !.contentParts = <<>>]
    /\ pc' = "resolve"
    /\ UNCHANGED <<doc, cursor, cache, settings, mhe, requests, notices, stream, alone,
                   anchor, view, calls>>

\* the file the part embeds, or <<>>
FileOfPart(part) ==
    IF part.type = "embed" /\ part.embed.link # <<>>
    THEN getFirstLinkpathDest(parseLinktext(part.embed.link).path)
    ELSE <<>>

\* the next part is text, or an embed of no file: nothing is awaited
LoadPlainPart ==
    /\ pc = "resolve"
    /\ args.j < Len(args.parts)
    /\ LET part == At(args.parts, args.j)
       IN  /\ FileOfPart(part) = <<>>
           /\ args' = [args EXCEPT
                         !.contentParts = IF part.type = "text" /\ part.text # <<>>
                                          THEN Append(@, ContentText(part.text))
                                          ELSE @,
                         !.j = @ + 1]
    /\ UNCHANGED <<doc, cursor, cache, settings, pc, mhe, requests, notices, stream, ret,
                   alone, anchor, view, calls>>

\* Mutant: the read or load of an embed is issued and the loop goes on to the
\* next part without awaiting it.
LoadIssue_noAwait ==
    /\ pc = "resolve"
    /\ args.j < Len(args.parts)
    /\ FileOfPart(At(args.parts, args.j)) # <<>>
    /\ Issue(FileOfPart(At(args.parts, args.j)))
    /\ args' = [args EXCEPT !.j = @ + 1]
    /\ UNCHANGED <<doc, cursor, cache, settings, pc, mhe, requests, notices, stream, alone,
                   anchor, view, calls>>

\* the next part embeds a file: its read (a note) or load (anything else) is
\* issued and awaited
LoadIssue ==
    /\ pc = "resolve"
    /\ args.j < Len(args.parts)
    /\ FileOfPart(At(args.parts, args.j)) # <<>>
    /\ Issue(FileOfPart(At(args.parts, args.j)))
    /\ pc' = "loading"
    /\ UNCHANGED <<doc, cursor, cache, settings, mhe, requests, notices, stream, args,
                   alone, anchor, view, calls>>

\* the awaited read or load succeeds: the embed gives its part
LoadResolved ==
    /\ pc = "loading"
    /\ LET part == At(args.parts, args.j)
           file == FileOfPart(part)
       IN  /\ file \in args.env.texts \cup args.env.images
           /\ args' = [args EXCEPT
                         !.contentParts =
                             Append(@, IF extensionOf(file) = "md"
                                       THEN ContentText(embeddedMarkdownOf(file,
                                                parseLinktext(part.embed.link).subpath))
                                       ELSE ContentImageUrl(file)),
                         !.j = @ + 1]
    /\ Settle
    /\ pc' = "resolve"
    /\ UNCHANGED <<doc, cursor, cache, settings, mhe, requests, notices, stream, alone,
                   anchor, view, calls>>

\* the awaited load of an image fails: caught, the embed gives no part
LoadImageRejected ==
    /\ pc = "loading"
    /\ LET file == FileOfPart(At(args.parts, args.j))
       IN  /\ extensionOf(file) # "md"
           /\ file \notin args.env.images
    /\ args' = [args EXCEPT !.j = @ + 1]
    /\ Settle
    /\ pc' = "resolve"
    /\ UNCHANGED <<doc, cursor, cache, settings, mhe, requests, notices, stream, alone,
                   anchor, view, calls>>

\* the awaited read of an embedded note fails: the build ends with the error
LoadReadRejected ==
    /\ pc = "loading"
    /\ LET file == FileOfPart(At(args.parts, args.j))
       IN  /\ extensionOf(file) = "md"
           /\ file \notin args.env.texts
    /\ Settle
    /\ mhe' = [ThreadError("parts") EXCEPT !.reads = ReadsOf(ret.log)]
    /\ pc' = "failed"
    /\ UNCHANGED <<doc, cursor, cache, settings, requests, notices, stream, args, alone,
                   anchor, view, calls>>

\* convertRangeToContentParts() returns: the message of the user turn
LoadTurnDone ==
    /\ pc = "resolve"
    /\ args.j = Len(args.parts)
    /\ args' = [args EXCEPT !.messages = Append(@, PartsMessage("user", args.contentParts)),
                            !.k = @ + 1]
    /\ pc' = "heading"
    /\ UNCHANGED <<doc, cursor, cache, settings, mhe, requests, notices, stream, ret,
                   alone, anchor, view, calls>>

\* the path is done: messages, heading and rangeEnd are returned
LoadReturn ==
    /\ pc = "heading"
    /\ args.k = Len(args.headingPath)
    /\ mhe' = [ok       |-> TRUE,
               error    |-> "",
               messages |-> args.messages,
               heading  |-> At(args.headings, At(args.headingPath, args.k - 1)),
               rangeEnd |-> args.rangeEnd,
               reads    |-> ReadsOf(ret.log)]
    /\ pc' = "done"
    /\ UNCHANGED <<doc, cursor, cache, settings, requests, notices, stream, args, ret,
                   alone, anchor, view, calls>>

LoadNext ==
    \/ LoadThrow
    \/ LoadBegin
    \/ LoadAssistantTurn
    \/ LoadUserTurn
    \/ LoadNoteRead
    \/ LoadPlainPart
    \/ LoadIssue
    \/ LoadResolved
    \/ LoadImageRejected
    \/ LoadReadRejected
    \/ LoadTurnDone
    \/ LoadReturn

SpecLoad == LoadInit /\ [][LoadNext]_vars

----------------------------------------------------------------------------
(* Two invocations of complete-thread on one editor: the first is          *)
(* streaming its reply into the note while the second builds its messages. *)
(* The build is the one of SpecLoad, await by await; while it waits for a  *)
(* read or a load the event loop may run the chunk loop of the first       *)
(* invocation.                                                             *)

\* the second invocation starts with the cursor where the first one left
\* it, at the end of the note
OverlapInit ==
    /\ doc \in LoadDocs
    /\ cache \in {FileCache(doc), NullCache}
    /\ cursor = [line |-> lastLine(doc), ch |-> Len(getLine(doc, lastLine(doc)))]
    /\ settings = NoSettings
    /\ pc = "begin"
    /\ mhe = NoMhe
    /\ requests = <<>>
    /\ notices = <<>>
    /\ stream = NoStream
    /\ args \in {[NoBuild EXCEPT !.env = env] : env \in Envs}
    /\ ret = NoLoads
    /\ alone = convertCurrentThreadToMessages(Note, <<"S">>, args.env)
    /\ anchor = cursor
    /\ view = NoView
    /\ calls = <<>>

\* while the build is suspended at an await, the first invocation resumes
\* in its chunk loop and writes the chunk at the cursor of the editor
OverlapChunk(chunk) ==
    /\ ret.outstanding # <<>>
    /\ stream.chunks < MaxChunks
    /\ LET ed == replaceRangeMoveCursor([doc |-> doc, cursor |-> cursor], chunk.content)
       IN  /\ doc' = ed.doc
           /\ cursor' = ed.cursor
           /\ anchor' = ed.cursor
    /\ calls' = Append(calls, Call("replaceRangeMoveCursor", chunk.content))
    /\ stream' = [stream EXCEPT !.chunks = @ + 1,
                                !.roc = extractSearchResultsOrCitations(chunk, @)]
    /\ UNCHANGED <<cache, settings, pc, mhe, requests, notices, args, ret, alone, view>>

OverlapNext ==
    \/ LoadNext
    \/ \E chunk \in Chunks : OverlapChunk(chunk)

SpecOverlap == OverlapInit /\ [][OverlapNext]_vars

----------------------------------------------------------------------------
(* Claims about the split of a range and the resolution of its embeds.     *)

\* the embeds of the cache that lie in the range of the call
CallEmbeds == SelectSeq(cache.embeds, Contained)

\* the embed resolves: its file exists and can be read or drawn in this call
Resolvable(embed) ==
    \/ embed.link \in TextFiles /\ embed.link \in args.env.texts
    \/ embed.link \in ImageFiles /\ embed.link \in args.env.images

\* the part a resolved embed gives
PartOf(embed) ==
    IF embed.link \in TextFiles THEN ContentText(Vault[embed.link].text)
    ELSE IF args.base64Images THEN ContentImageUrl(embed.link)
    ELSE ContentImageBuffer(embed.link, "image/png")

\* the text of the note from offset a up to offset b, without the white space
\* around it
TextBetween(a, b) == trim(slice(doc, a, b))

\* C11: a range holding text A, an embed, text B, an embed, text C, the embeds
\* in position order and both resolvable, gives exactly five parts, in the
\* order text, embed, text, embed, text, each text being the trimmed slice
\* from the range start or one past the end of the embed before it up to the
\* start of the next embed or the range end.
C11_FiveParts ==
    (/\ args.fn = "convertRangeToContentParts"
     /\ cache.avail
     /\ Len(CallEmbeds) = 2
     /\ \A k \in 1..2 : Resolvable(CallEmbeds[k])
     /\ TextBetween(CallStart, CallEmbeds[1].position.start.offset) # <<>>
     /\ TextBetween(CallEmbeds[1].position.end.offset,
                    CallEmbeds[2].position.start.offset) # <<>>
     /\ TextBetween(CallEmbeds[2].position.end.offset, CallEnd) # <<>>)
    => /\ ret.parts.ok
       /\ ret.parts.parts =
             <<ContentText(TextBetween(CallStart, CallEmbeds[1].position.start.offset)),
               PartOf(CallEmbeds[1]),
               ContentText(TextBetween(CallEmbeds[1].position.end.offset + 1,
                                       CallEmbeds[2].position.start.offset)),
               PartOf(CallEmbeds[2]),
               ContentText(TextBetween(CallEmbeds[2].position.end.offset + 1, CallEnd))>>

\* C12: the parts come in document order whatever the order of the embeds in
\* the embed array: an array that is not sorted by position gives the parts
\* the sorted array gives, no text twice and none out of place.
C12_DocumentOrder ==
    (args.fn = "convertRangeToContentParts" /\ cache.avail) =>
        ret.parts = contentPartsOf(ParseEmbeds(doc), doc, args.startOffset, args.endOffset,
                                   args.base64Images, args.env)

\* the link of the embed resolves to no file
IsBroken(embed) == getFirstLinkpathDest(parseLinktext(embed.link).path) = <<>>

\* C13: a range of text, an embed whose link resolves to no file, and text
\* gives, without an error, exactly two text parts: the text before the embed
\* and the text after it, in that order, and no part for the embed.
C13_BrokenLink ==
    (/\ args.fn = "convertRangeToContentParts"
     /\ cache.avail
     /\ Len(CallEmbeds) = 1
     /\ IsBroken(CallEmbeds[1])
     /\ TextBetween(CallStart, CallEmbeds[1].position.start.offset) # <<>>
     /\ TextBetween(CallEmbeds[1].position.end.offset, CallEnd) # <<>>)
    => /\ ret.parts.ok
       /\ ret.parts.parts =
             <<ContentText(TextBetween(CallStart, CallEmbeds[1].position.start.offset)),
               ContentText(TextBetween(CallEmbeds[1].position.end.offset, CallEnd))>>

IsNoteLink(embed) == embed.link \in TextFiles
IsNoteRead(file) == file \in TextFiles

\* the content parts that hold the text of a file of the vault
IsFilePart(part) == part.type = "text" /\ part.text \in {Vault[f].text : f \in TextFiles}

\* the text holds the character c
Holds(text, c) == \E k \in 1..Len(text) : text[k] = c

\* C14: transclusion is one level deep.  The part of an embedded note X is
\* one text part with the text of X as the file has it, the embeds in X left
\* as written; the only files read are the note itself, once, and the files
\* the range embeds, so a file Y that only X embeds is never read and nothing
\* of it is in the result, also when X embeds itself or the note of the range.
C14_OneLevel ==
    (args.fn = "convertRangeToContentParts" /\ ret.parts.ok) =>
        LET notes == SelectSeq(CallEmbeds, IsNoteLink)
            fileParts == SelectSeq(ret.parts.parts, IsFilePart)
        IN  /\ fileParts = [k \in 1..Len(notes) |-> ContentText(Vault[notes[k].link].text)]
            /\ Head(ret.parts.reads) = Note
            /\ SelectSeq(Tail(ret.parts.reads), IsNoteRead)
                  = [k \in 1..Len(notes) |-> notes[k].link]
            /\ \A k \in 1..Len(ret.parts.reads) :
                  /\ ret.parts.reads[k] # <<"n">>
                  /\ k > 1 => /\ ret.parts.reads[k] # Note
                              /\ \E j \in 1..Len(CallEmbeds) :
                                    CallEmbeds[j].link = ret.parts.reads[k]
            /\ \A k \in 1..Len(ret.parts.parts) :
                  ~Holds(ret.parts.parts[k].text, "y")

\* the range embeds m, which embeds n: the part is the text of m and n was
\* not read
C14_Witness ==
    /\ args.fn = "convertRangeToContentParts"
    /\ ret.parts.ok
    /\ Len(CallEmbeds) = 1
    /\ CallEmbeds[1].link = <<"m">>
    /\ ret.parts.reads = <<Note, <<"m">> >>
    /\ \E k \in 1..Len(ret.parts.parts) :
          ret.parts.parts[k] = ContentText(<<"x", " ", "!", "[", "[", "n", "]", "]">>)

\* C15: when the cache entry of the note is unavailable both conversions
\* raise an error before any file is read or any embed resolved, and give no
\* parts and no messages: nothing empty or partial is returned in its place.
C15_CacheUnavailable ==
    ~cache.avail =>
        /\ args.fn = "convertRangeToContentParts" =>
              /\ ~ret.parts.ok
              /\ ret.parts.error = "cache"
              /\ ret.parts.parts = <<>>
              /\ ret.parts.reads = <<>>
        /\ args.fn = "convertCurrentThreadToMessages" =>
              /\ ~ret.thread.ok
              /\ ret.thread.error = "Could not find cache"
              /\ ret.thread.messages = <<>>
              /\ ret.thread.reads = <<>>

\* a note with text and an embed that resolves, and no cache entry: the
\* conversion of the range has failed
C15_Witness ==
    /\ ~cache.avail
    /\ args.fn = "convertRangeToContentParts"
    /\ doc = HeadDoc(TextTight \o EmbedOf(<<"m">>))
    /\ args.env.texts = TextFiles
    /\ ~ret.parts.ok

\* every file of the vault can be read and every image drawn
FullEnv == [images |-> ImageFiles, texts |-> TextFiles]

\* the part comes from a file that cannot be read or drawn in this call
IsFailedPart(part) ==
    \/ /\ part.type = "text"
       /\ \E f \in TextFiles \ args.env.texts : part.text = Vault[f].text
    \/ /\ part.type \in {"image_url", "image_buffer"}
       /\ part.image \notin args.env.images

\* C16: a failure while one embed is resolved (no file for the link, a file
\* of a type that is not handled, an image that cannot be loaded or drawn, a
\* file that cannot be read) stays with that embed: the call returns, and
\* with the result it has when everything resolves, less the parts of the
\* embeds that failed.
C16_FailureContained ==
    (args.fn = "convertRangeToContentParts" /\ cache.avail) =>
        LET full == contentPartsOf(cache.embeds, doc, args.startOffset, args.endOffset,
                                   args.base64Images, FullEnv)
        IN  /\ ret.parts.ok
            /\ ret.parts.parts = SelectSeq(full.parts, LAMBDA part : ~IsFailedPart(part))

----------------------------------------------------------------------------
(* Claims about the complete-thread command.                               *)

\* the path the command computes in the current state
CurrentPath == getHeadingPathToCursor(cache.headings, cursor.line)

\* C3: the path is empty exactly when no heading starts at or before the
\* cursor line, and then convertCurrentThreadToMessages fails with "No
\* headings to work with" and returns no messages; it never returns for an
\* empty path.
C3_EmptyPath ==
    cache.avail =>
        /\ (CurrentPath = <<>>) <=> (AtOrBefore(cache.headings, cursor.line) = {})
        /\ (pc = "failed" /\ AtOrBefore(cache.headings, cursor.line) = {}) =>
              /\ ~mhe.ok
              /\ mhe.error = "No headings to work with"
              /\ mhe.messages = <<>>
        /\ pc = "converted" => AtOrBefore(cache.headings, cursor.line) # {}

C3_Witness ==
    /\ pc = "failed"
    /\ mhe.error = "No headings to work with"
    /\ Len(cache.headings) > 0
    /\ At(cache.headings, 0).position.start.line = cursor.line + 1

StructuralFailure ==
    \/ ~cache.avail
    \/ AtOrBefore(cache.headings, cursor.line) = {}

\* C4: when the command starts on a note without an enclosing heading or
\* without metadata cache, its step leaves the text and the cursor as they
\* were, sends no request and shows at most one notice (exactly one when the
\* conversion is what failed), and nothing is done afterwards.
C4_NoPartialState ==
    [][/\ (pc = "idle" /\ StructuralFailure) =>
              /\ doc' = doc
              /\ cursor' = cursor
              /\ cache' = cache
              /\ requests' = requests
              /\ stream' = stream
              /\ pc' \in {"failed", "done"}
              /\ pc' = "failed" => Len(notices') = Len(notices) + 1
              /\ pc' = "done" => Len(notices') <= Len(notices) + 1
       /\ pc = "failed" => UNCHANGED vars]_vars

C4_Witness ==
    /\ pc = "failed"
    /\ mhe.error = "Could not find cache"
    /\ Len(notices) = 1
    /\ requests = <<>>
    /\ Len(ParseHeadings(doc)) > 0

\* a letter of the prefix, in either case
EitherCase(c) ==
    CASE c = "A" -> {"A", "a"}
      [] c = "I" -> {"I", "i"}
      [] c = "S" -> {"S", "s"}
      [] c = "T" -> {"T", "t"}
      [] c = "N" -> {"N", "n"}

PrefixIgnoringCase(text, prefix) ==
    /\ Len(text) >= Len(prefix)
    /\ \A k \in 1..Len(prefix) : text[k] \in EitherCase(prefix[k])

IsAssistantHeading(text) ==
    \/ PrefixIgnoringCase(text, <<"A", "I">>)
    \/ PrefixIgnoringCase(text, <<"A", "S", "S", "I", "S", "T", "A", "N", "T">>)

\* C6: the message of a path heading has role assistant exactly when the
\* heading text starts, ignoring case, with "AI" or "ASSISTANT", and role
\* user otherwise; "AI: follow-up", "ai quick check", "Assistant notes" and
\* "Aiden's question" are assistant turns.
C6_Roles ==
    pc = "converted" =>
        /\ \A k \in 1..Len(CurrentPath) :
              LET text == At(cache.headings, CurrentPath[k]).heading
              IN  mhe.messages[k + 1].role =
                      IF IsAssistantHeading(text) THEN "assistant" ELSE "user"
        /\ (doc = RoleDoc /\ cursor.line >= 3) =>
              \A k \in 2..5 : mhe.messages[k].role = "assistant"
        /\ (doc = RoleDoc /\ cursor.line = 4) => mhe.messages[6].role = "user"

C6_Witness ==
    /\ pc = "converted"
    /\ doc = RoleDoc
    /\ cursor.line = 4
    /\ [k \in 1..6 |-> mhe.messages[k].role]
          = <<"system", "assistant", "assistant", "assistant", "assistant", "user">>

\* the message was built from the range of heading i
BuiltFrom(message, headings, i) ==
    LET r == getHeadingRange(headings, i, doc)
    IN  /\ message.role = roleOf(At(headings, i).heading)
        /\ message.role = "assistant" => message.text = SectionText(headings, i, doc)
        /\ message.role = "user" =>
              \E env \in Envs :
                  LET c == convertRangeToContentParts(r.rangeStartOffset, r.rangeEndOffset,
                                                      Note, TRUE, env)
                  IN  c.ok /\ message.parts = c.parts

\* C7: a successful conversion returns one system message holding the system
\* prompt, followed by one message per heading of the path, in path order,
\* each built from its own heading's range; no other message is a system
\* message.
C7_MessageList ==
    pc = "converted" =>
        /\ Len(mhe.messages) = 1 + Len(CurrentPath)
        /\ mhe.messages[1] = StringMessage("system", settings.systemPrompt)
        /\ \A k \in 1..Len(CurrentPath) :
              /\ mhe.messages[k + 1].role \in {"user", "assistant"}
              /\ BuiltFrom(mhe.messages[k + 1], cache.headings, CurrentPath[k])

\* a path of two of the note's three headings: a user turn, then an
\* assistant turn
C7_Witness ==
    /\ pc = "converted"
    /\ Len(cache.headings) = 3
    /\ CurrentPath = <<1, 2>>
    /\ [k \in 1..3 |-> mhe.messages[k].role] = <<"system", "user", "assistant">>

IsTrimmed(text) == text # <<>> /\ ~IsSpace(text[1]) /\ ~IsSpace(text[Len(text)])

\* C8: an assistant message carries one string, the literal editor text of
\* the lines after its heading up to its range end (embeds stay as written);
\* a user message carries the list of content parts of its range, images as
\* data URLs; no assistant message carries parts, no user message a string.
C8_ContentKinds ==
    pc = "converted" =>
        \A k \in 1..Len(CurrentPath) :
            LET m == mhe.messages[k + 1]
                i == CurrentPath[k]
            IN  /\ m.role = "assistant" =>
                      /\ m.kind = "string"
                      /\ m.parts = <<>>
                      /\ m.text = SectionText(cache.headings, i, doc)
                /\ m.role = "user" =>
                      /\ m.kind = "parts"
                      /\ m.text = <<>>
                      /\ \A j \in 1..Len(m.parts) :
                            /\ m.parts[j].type \in {"text", "image_url"}
                            /\ m.parts[j].type = "text" => IsTrimmed(m.parts[j].text)
                            /\ m.parts[j].type = "image_url" => m.parts[j].image \in ImageFiles
                      /\ BuiltFrom(m, cache.headings, i)

\* an assistant turn that holds an embed, kept as "![[p]]", next to a user
\* turn whose embed became an image part
C8_Witness ==
    /\ pc = "converted"
    /\ doc = EmbedDoc
    /\ \E k \in 2..Len(mhe.messages) :
          /\ mhe.messages[k].role = "assistant"
          /\ mhe.messages[k].text = LineImage
    /\ \E k \in 2..Len(mhe.messages) :
          /\ mhe.messages[k].role = "user"
          /\ mhe.messages[k].parts = <<ContentImageUrl(<<"p">>)>>

SystemMessage == StringMessage("system", <<"S">>)

\* C9 as stated: on the example note with the cursor on "Bye" the messages
\* are [system, user("Hello"), assistant("Hi there"), user("Bye")].
C9_Original ==
    (pc = "converted" /\ doc = ExampleDoc /\ cursor.line = 7) =>
        /\ CurrentPath = <<0, 1, 2>>
        /\ mhe.messages =
              <<SystemMessage,
                PartsMessage("user", <<ContentText(<<"H", "e", "l", "l", "o">>)>>),
                StringMessage("assistant", <<"H", "i", " ", "t", "h", "e", "r", "e">>),
                PartsMessage("user", <<ContentText(<<"B", "y", "e">>)>>)>>

\* C9, amended: on the example note with the cursor on "Bye" the path is
\* [Q, AI, Q2] and the messages are [system, user("Hello"),
\* assistant("Hi there\n"), user("Bye")]: the assistant text is not trimmed
\* and keeps the newline that ends the line "Hi there".
C9_Example ==
    (pc = "converted" /\ doc = ExampleDoc /\ cursor.line = 7) =>
        /\ CurrentPath = <<0, 1, 2>>
        /\ mhe.messages =
              <<SystemMessage,
                PartsMessage("user", <<ContentText(<<"H", "e", "l", "l", "o">>)>>),
                StringMessage("assistant", <<"H", "i", " ", "t", "h", "e", "r", "e", "\n">>),
                PartsMessage("user", <<ContentText(<<"B", "y", "e">>)>>)>>

C9_Witness ==
    /\ pc = "converted"
    /\ doc = ExampleDoc
    /\ cursor.line = 7
    /\ Len(mhe.messages) = 4

\* the last line of the content of the heading on line h: the line before the
\* next line that is a heading, or the last line of the note
ContentEndLine(text, h) ==
    SetMin({l \in h..lastLine(text) :
               l = lastLine(text) \/ IsHeadingLine(getLine(text, l + 1))})

\* the lines first..last of the note, with the newlines between them
LinesOf(text, first, last) ==
    JoinLines([n \in 1..last - first + 1 |-> getLine(text, first + n - 1)])

\* C17: the heading and rangeEnd returned are those of the last heading of
\* the path: rangeEnd is the end of the line before the next heading, of any
\* level, or the end of the last line when no heading follows.  The command
\* then writes the AI heading there: after the heading's own content and
\* before a child heading the note already has.
C17_ReplyPlace ==
    [][/\ pc' = "converted" =>
             LET i == At(CurrentPath, Len(CurrentPath) - 1)
                 h == At(cache.headings, i).position.start.line
                 l == ContentEndLine(doc, h)
             IN  /\ mhe'.heading = At(cache.headings, i)
                 /\ mhe'.rangeEnd = [line |-> l, ch |-> Len(getLine(doc, l))]
       /\ (pc = "converted" /\ pc' = "streaming") =>
             LET h == mhe.heading.position.start.line
                 l == ContentEndLine(doc, h)
                 written == aiHeading(mhe.heading.level + 1, settings.showUsedModel,
                                      settings.model)
             IN  /\ doc' = LinesOf(doc, 0, l) \o written
                           \o (IF l < lastLine(doc)
                               THEN <<"\n">> \o LinesOf(doc, l + 1, lastLine(doc))
                               ELSE <<>>)
                 /\ cursor' = [line |-> l + 3, ch |-> 0]
      ]_vars

\* the cursor was under "# Q", which has the text "Hi" and then a child
\* heading: the AI heading was written between the two
C17_Witness ==
    /\ pc = "streaming"
    /\ stream.chunks = 0
    /\ ~settings.showUsedModel
    /\ mhe.heading.heading = <<"Q">>
    /\ doc = JoinLines(<<LineQ, LineText>>) \o aiHeading(2, FALSE, <<>>) \o <<"\n">> \o LineAI

TurnLoads(i) ==
    LET r == getHeadingRange(cache.headings, i, doc)
        inside == SelectSeq(cache.embeds,
                      LAMBDA e : /\ e.position.start.offset >= r.rangeStartOffset
                                 /\ e.position.end.offset <= r.rangeEndOffset
                                 /\ e.link \in DOMAIN Vault)
    IN  IF roleOf(At(cache.headings, i).heading) = "user"
        THEN <<Note>> \o [n \in 1..Len(inside) |-> inside[n].link]
        ELSE <<>>

\* those of the headings of the path from its entry k+1 on
RECURSIVE PathLoads(_, _)
PathLoads(path, k) ==
    IF k >= Len(path) THEN <<>>
    ELSE TurnLoads(At(path, k)) \o PathLoads(path, k + 1)

IsPrefix(a, b) == Len(a) <= Len(b) /\ a = SubSeq(b, 1, Len(a))

\* C19: within one build the embeds are resolved one at a time, in document
\* order.  At most one read or load is outstanding; each is settled before
\* the next is issued, whether the next belongs to a later embed or to a
\* later heading of the path; and every embed has its own read and its own
\* part, also when two embeds name the same file.
C19_OneAtATime ==
    /\ Len(ret.outstanding) <= 1
    /\ \A n \in 1..Len(ret.log) :
          IF n % 2 = 1
          THEN ret.log[n].op = "start"
          ELSE ret.log[n].op = "end" /\ ret.log[n].file = ret.log[n - 1].file
    /\ (cache.avail /\ pc # "begin") =>
          IsPrefix(ReadsOf(ret.log), PathLoads(CurrentPath, 0))
    /\ pc = "done" =>
          /\ ReadsOf(ret.log) = PathLoads(CurrentPath, 0)
          /\ ret.outstanding = <<>>
    /\ pc \in {"done", "failed"} =>
          mhe = convertCurrentThreadToMessages(Note, <<"S">>, args.env)

\* two embeds of the image p under one heading: p was loaded twice, one load
\* after the other, and the message has two image parts
C19_Witness ==
    /\ pc = "done"
    /\ doc = JoinLines(<<LineQ, LineImage, LineImage>>)
    /\ ret.log = <<Started(Note), Settled(Note), Started(<<"p">>), Settled(<<"p">>),
                   Started(<<"p">>), Settled(<<"p">>)>>
    /\ mhe.messages[2].parts = <<ContentImageUrl(<<"p">>), ContentImageUrl(<<"p">>)>>


----------------------------------------------------------------------------
(* Claims about overlapping invocations.                                   *)

\* C20: overlapping invocations do not interfere: the message list a
\* request has built when it returns is the list it would have built
\* running alone on the note as it was when the request started, whatever
\* another request streamed into the note in between.
C20_NoInterference ==
    pc = "done" => mhe.messages = alone.messages


----------------------------------------------------------------------------
(* Claims about the three commands.                                        *)

\* the positions of a callback between its request and its last write
Streaming == {"streaming", "opening", "replying"}

\* the positions of a callback that has returned
Ended == {"done", "returned", "failed"}

\* the calls of view.setState() so far
SetStateCalls(cs) == SelectSeq(cs, LAMBDA c : c.op = "setState")

\* C21: a command that starts streaming in live preview switches the view
\* to source mode before the request is made, so before the first chunk is
\* written, and switches it back when the streaming has ended, whether the
\* stream completed or failed; a view that was in source mode already is
\* never switched.  Every step of a command: the view is in source mode at
\* every position from the request to the last write; when these positions
\* are entered the callback remembers a switch exactly if the view was in
\* live preview; when they are left the view is in live preview exactly if
\* a switch was remembered; the view changes at no other step, and each
\* change is one call of setState().
C21_SourceModeWhileStreaming ==
    [][/\ pc' \in Streaming => view'.source
       /\ (pc \notin Streaming /\ pc' \in Streaming) =>
              stream'.didSwitchMode = ~view.source
       /\ (pc \in Streaming /\ pc' \in Ended) =>
              view'.source = ~stream.didSwitchMode
       /\ view' # view =>
              \/ pc \notin Streaming /\ pc' \in Streaming /\ ~view.source
              \/ pc \in Streaming /\ pc' \in Ended /\ ~view'.source
       /\ Len(SetStateCalls(calls')) - Len(SetStateCalls(calls))
              = IF view' # view THEN 1 ELSE 0]_vars

\* "send selection" started in live preview, a chunk was written and the
\* stream failed: the view was switched to source mode and back
C21_Witness ==
    /\ pc = "returned"
    /\ stream.chunks > 0
    /\ Len(notices) = 1
    /\ ~view.source
    /\ SetStateCalls(calls) = <<SetState(TRUE), SetState(FALSE)>>

\* the texts given to replaceRangeMoveCursor(), one after the other
RECURSIVE Written(_)
Written(cs) ==
    IF cs = <<>> THEN <<>>
    ELSE (IF Head(cs).op = "replaceRangeMoveCursor" THEN Head(cs).text ELSE <<>>)
         \o Written(Tail(cs))

\* the entries of cs after its entry getOpenAIStream
RECURSIVE AfterRequest(_)
AfterRequest(cs) ==
    IF cs = <<>> THEN <<>>
    ELSE IF Head(cs).op = "getOpenAIStream" THEN Tail(cs)
    ELSE AfterRequest(Tail(cs))

\* the entries of cs up to its entry getOpenAIStream
BeforeRequest(cs) == SubSeq(cs, 1, Len(cs) - Len(AfterRequest(cs)))

\* cs without its calls of setState()
OtherCalls(cs) == SelectSeq(cs, LAMBDA c : c.op # "setState")

IsChunkWrite(c) ==
    c.op = "replaceRangeMoveCursor" /\ \E chunk \in Chunks : c.text = chunk.content

IsCitationsWrite(c) ==
    /\ c.op = "replaceRangeMoveCursor"
    /\ Len(c.text) > Len(CitationsHeader)
    /\ SubSeq(c.text, 1, Len(CitationsHeader)) = CitationsHeader

\* "\n\n", level times "#", " ", the title, "\n"
HeadingWrite(level, title) ==
    Call("replaceRangeMoveCursor",
         <<"\n", "\n">> \o [i \in 1..level |-> "#"] \o <<" ">> \o title \o <<"\n">>)

AITitle ==
    <<"A", "I">>
    \o (IF settings.showUsedModel
        THEN <<" ", "(", "m", "o", "d", "e", "l", ":", ":", " ">> \o settings.model \o <<")">>
        ELSE <<>>)

\* C22: the writes of a successful "send thread" run, in order: the cursor
\* is set (to rangeEnd), the AI heading is written one level deeper than
\* the last heading of the path, and only then is the request made; every
\* chunk is written in arrival order; at most one citations block follows;
\* the "User" heading, two levels deeper than the last heading of the path,
\* is the last write.  No chunk is written before the AI heading or after
\* the "User" heading, and the note holds what was written, in this order,
\* from rangeEnd to the cursor.
C22_WriteOrder ==
    (pc \in {"streaming", "done"} /\ requests # <<>> /\ notices = <<>>) =>
        LET before == OtherCalls(BeforeRequest(calls))
            after == OtherCalls(AfterRequest(calls))
            n == stream.chunks
            at == posToOffset(doc, mhe.rangeEnd)
            text == Written(calls)
        IN  /\ before = <<Call("setCursor", <<>>),
                          HeadingWrite(mhe.heading.level + 1, AITitle),
                          Call("getOpenAIStream", <<>>)>>
            /\ Len(after) >= n
            /\ \A i \in 1..n : IsChunkWrite(after[i])
            /\ pc = "streaming" => Len(after) = n
            /\ pc = "done" =>
                   /\ Len(after) \in {n + 1, n + 2}
                   /\ Len(after) = n + 2 => IsCitationsWrite(after[n + 1])
                   /\ after[Len(after)]
                          = HeadingWrite(mhe.heading.level + 2, <<"U", "s", "e", "r">>)
            /\ slice(doc, at, at + Len(text)) = text
            /\ posToOffset(doc, cursor) = at + Len(text)

\* the reply under "## AI" came as the chunk "\nb", which carries the
\* citations, and then the chunk "a"; the citations and the heading
\* "### User" were written after them
C22_Witness ==
    /\ pc = "done"
    /\ notices = <<>>
    /\ mhe.heading.level = 1
    /\ OtherCalls(AfterRequest(calls))
           = <<Call("replaceRangeMoveCursor", <<"\n", "b">>),
               Call("replaceRangeMoveCursor", <<"a">>),
               Call("replaceRangeMoveCursor",
                    CitationsHeader \o <<"1", ".", " ", "<", "u", ">">>),
               Call("replaceRangeMoveCursor",
                    <<"\n", "\n", "#", "#", "#", " ", "U", "s", "e", "r", "\n">>)>>

----------------------------------------------------------------------------
(* Claims about the embeds of a range and of an embedded note.             *)

\* the file an embed names and the conversion asks for: <<>> when the link
\* resolves to no file or to a file the conversion does not read
AskedFile(embed, base64Images) ==
    LET embeddedFile == getFirstLinkpathDest(parseLinktext(embed.link).path)
    IN  IF embed.link = <<>> \/ embeddedFile = <<>> THEN <<>>
        ELSE IF extensionOf(embeddedFile) = "md" \/ base64Images
                \/ extensionOf(embeddedFile) \in {"png", "webp", "jpg", "jpeg"}
        THEN embeddedFile
        ELSE <<>>

\* the offset at which the section of heading i ends: the newline before
\* the next heading, or the end of the text
SectionEnd(headings, i, text) ==
    IF i + 1 < Len(headings)
    THEN At(headings, i + 1).position.start.offset - 1
    ELSE Len(text)

\* C23: an embed right at the end of a section or selection is not ignored.
\* An embed that starts in the range and whose end offset equals the end
\* offset of the range is taken as an embed part: a conversion that
\* succeeds has asked for its file, and as no embed comes after it in the
\* range, that file is the last one asked for.  The range getHeadingRange
\* gives for a section ends where an embed ends that is the last thing
\* of the section, before the newline that precedes the next heading or at
\* the end of the file.
C23_EmbedAtRangeEnd ==
    /\ (args.fn = "convertRangeToContentParts" /\ ret.parts.ok) =>
          \A k \in 1..Len(cache.embeds) :
              LET embed == cache.embeds[k]
                  file == AskedFile(embed, args.base64Images)
              IN  (/\ embed.position.start.offset >= CallStart
                   /\ embed.position.end.offset = CallEnd
                   /\ file # <<>>) =>
                      ret.parts.reads[Len(ret.parts.reads)] = file
    /\ (args.fn = "getHeadingRange" /\ cache.avail) =>
          \A k \in 1..Len(cache.embeds) :
              cache.embeds[k].position.end.offset = SectionEnd(cache.headings, args.i, doc)
                  => cache.embeds[k].position.end.offset = ret.range.rangeEndOffset

\* the note "a\n![[p]]" was converted up to its end, where the image ends
C23_Witness ==
    /\ args.fn = "convertRangeToContentParts"
    /\ doc = JoinLines(<<LineA, LineImage>>)
    /\ CallStart = 0
    /\ \E k \in 1..Len(cache.embeds) : cache.embeds[k].position.end.offset = CallEnd
    /\ ret.parts.ok
    /\ ret.parts.parts = <<ContentText(<<"a">>), ContentImageBuffer(<<"p">>, "image/png")>>

\* the text of the lines first..last of a text, the newline after the last
\* one included if there is one
LinesWithNewline(text, first, last) ==
    slice(text, LineFrom(text, first), LineTo(text, last) + 1)

\* the part of the note "h" that a link to it names
LinkedText(link) ==
    LET text == Vault[<<"h">>].text
        fileCache == FileCache(text)
        subpath == parseLinktext(link).subpath
        sub == resolveSubpath(fileCache, subpath)
        heading == At(fileCache.headings, sub.current)
    IN  IF subpath = <<>> \/ sub.type = "null" THEN text
        ELSE IF sub.type = "heading"
        THEN slice(text, heading.position.start.offset,
                   IF sub.next = -1 THEN Len(text)
                   ELSE At(fileCache.headings, sub.next).position.start.offset)
        ELSE slice(text, sub.block.start.offset, sub.block.end.offset)

\* C24: a resolved markdown embed gives exactly one text part: the whole
\* file when the link has no subpath, for a heading subpath the text from
\* the start of the heading to the start of the next heading that
\* resolveSubpath() reports, or to the end of the file, for a block subpath
\* the text from the start of the block to its end.  In a note whose embeds
\* all name "h", the parts of a conversion that succeeds are these texts,
\* one for each embed, in the order of the embeds; for the headings and the
\* block of "h" they are the lines of the section and of the paragraph.
C24_MarkdownEmbedText ==
    (args.fn = "convertRangeToContentParts" /\ ret.parts.ok) =>
        /\ Len(ret.parts.parts) = Len(cache.embeds)
        /\ \A k \in 1..Len(cache.embeds) :
              LET link == cache.embeds[k].link
                  part == ret.parts.parts[k]
                  h == Vault[<<"h">>].text
              IN  /\ part = ContentText(LinkedText(link))
                  /\ link = <<"h">> => part.text = h
                  /\ link = <<"h", "#", "A">> => part.text = LinesWithNewline(h, 0, 4)
                  /\ link = <<"h", "#", "B">> => part.text = LinesWithNewline(h, 3, 4)
                  /\ link = <<"h", "#", "C">> => part.text = LinesWithNewline(h, 5, 6)
                  /\ link = <<"h", "#", "^", "k">> =>
                         part.text = <<"t", "\n", "u", " ", "^", "k">>
                  /\ link \in {<<"h", "#", "Z">>, <<"h", "#", "^", "z">>} => part.text = h

\* the note "![[h#B]] ![[h#^k]]" was converted: the subsection B and the
\* paragraph with the id k
C24_Witness ==
    /\ args.fn = "convertRangeToContentParts"
    /\ doc = EmbedOf(<<"h", "#", "B">>) \o <<" ">> \o EmbedOf(<<"h", "#", "^", "k">>)
    /\ ret.parts.ok
    /\ ret.parts.parts = <<ContentText(<<"#", "#", " ", "B", "\n", "v", "\n">>),
                           ContentText(<<"t", "\n", "u", " ", "^", "k">>)>>

----------------------------------------------------------------------------
(* Claims about the system prompt.                                         *)

\* the prompt a file of the vault gives: "m" is "x ![[n]]" and "n" is "y";
\* "r" is "![[p]] r" and "p" is an image
PromptOfFile(path) ==
    IF path = <<"m", ".", "m", "d">> THEN <<"x", "\n", "y">>
    ELSE IF path = <<"r", ".", "m", "d">> THEN <<"r">>
    ELSE <<>>

\* the prompt of the file with this path, or the configured text when the
\* path is empty
PromptNamed(path) == IF path = <<>> THEN settings.systemPrompt ELSE PromptOfFile(path)

\* a path that is not empty and is the path of no file
NamesNoFile(path) == path # <<>> /\ \A file \in DOMAIN Vault : pathOf(file) # path

\* every request has the prompt of this path as its system message, and
\* when the path names no file the commands change nothing and ask nothing
PromptChosenBy(path) ==
    /\ requests # <<>> =>
          /\ requests[1].messages[1] = StringMessage("system", PromptNamed(path))
          /\ PromptNamed(path) # <<>>
    /\ NamesNoFile(path) =>
          /\ requests = <<>>
          /\ calls = <<>>
          /\ doc \in PromptDocs

\* C25 as stated: the prompt is that of the file the frontmatter names if it
\* names one, else of the configured file if there is one, else the
\* configured text.
C25_Original ==
    PromptChosenBy(IF cache.frontmatter.has /\ cache.frontmatter.value # <<>>
                   THEN cache.frontmatter.value
                   ELSE settings.systemPromptFile)

\* C25: the system prompt of a request is chosen by this chain: the value of
\* the frontmatter key aicmd-system-prompt-file of the note if the key has
\* a value, else the configured system prompt file; if the path so chosen
\* is empty, which it also is when the frontmatter gives the empty string,
\* the prompt is the configured text, and else it is the whole file
\* converted with one level of transclusion, its text parts joined by
\* newlines in document order and its images dropped.  When the path names
\* no file no request is sent and the note is left unchanged.
C25_PromptChain ==
    PromptChosenBy(IF cache.frontmatter.has
                   THEN cache.frontmatter.value
                   ELSE settings.systemPromptFile)

\* the frontmatter names "r.md" and the settings "m.md": the request was
\* made with the text of "r", without its image
C25_Witness ==
    /\ cache.frontmatter = [has |-> TRUE, value |-> <<"r", ".", "m", "d">>]
    /\ settings.systemPromptFile = <<"m", ".", "m", "d">>
    /\ requests # <<>>
    /\ requests[1].messages[1] = StringMessage("system", <<"r">>)

----------------------------------------------------------------------------
(* Claims about the writes into the note.                                  *)

\* C26: replaceRangeMoveCursor inserts the text at the cursor and leaves
\* the cursor right after the inserted text, whether the text is empty, one
\* line or several lines.  After any sequence of calls t1..tn and no other
\* change, the note is the original with t1 \o ... \o tn inserted at the
\* original cursor, and the cursor is the position right after it.
C26_InsertAtCursor ==
    pc = "editing" =>
        LET at == posToOffset(args.doc, args.cursor)
            text == Written(calls)
        IN  /\ doc = SubSeq(args.doc, 1, at) \o text \o SubSeq(args.doc, at + 1, Len(args.doc))
            /\ cursor = offsetToPos(doc, at + Len(text))
            /\ posToOffset(doc, cursor) = at + Len(text)

\* "c\nde" and then "\nc" were written between the "a" and the "b" of "ab"
C26_Witness ==
    /\ pc = "editing"
    /\ args = [doc |-> <<"a", "b">>, cursor |-> [line |-> 0, ch |-> 1]]
    /\ calls = <<Call("replaceRangeMoveCursor", <<"c", "\n", "d", "e">>),
                 Call("replaceRangeMoveCursor", <<"\n", "c">>)>>
    /\ doc = <<"a", "c", "\n", "d", "e", "\n", "c", "b">>
    /\ cursor = [line |-> 2, ch |-> 1]

\* the headings of a path: text and level of each
PathHeadings(headings, path) ==
    [k \in 1..Len(path) |-> [heading |-> At(headings, path[k]).heading,
                              level |-> At(headings, path[k]).level]]

\* the path the run was made on: the path to its last heading
RunPath == getHeadingPathToCursor(cache.headings, mhe.heading.position.start.line)

\* C27: after a successful "send thread" run on a path, the path to the
\* cursor, which is in the new "User" section, is that path followed by the
\* new AI heading and the new "User" heading, an assistant and a user turn.
C27_RoundTrip ==
    (pc = "done" /\ requests # <<>> /\ notices = <<>>) =>
        LET headings == ParseHeadings(doc)
            path == getHeadingPathToCursor(headings, cursor.line)
            level == mhe.heading.level
        IN  /\ PathHeadings(headings, path)
                   = PathHeadings(cache.headings, RunPath)
                     \o <<[heading |-> AITitle, level |-> level + 1],
                          [heading |-> <<"U", "s", "e", "r">>, level |-> level + 2]>>
            /\ roleOf(At(headings, path[Len(path) - 1]).heading) = "assistant"
            /\ roleOf(At(headings, path[Len(path)]).heading) = "user"

\* position p is after position q
After(p, q) == p.line > q.line \/ (p.line = q.line /\ p.ch > q.ch)

\* the position the text of an assistant turn is read from
AssistantStart(heading) == [line |-> heading.position.end.line + 1, ch |-> 0]

\* heading i has no line of its own: the next heading is on the next line,
\* or the heading is on the last line of the text
Bare(headings, i, text) ==
    IF i + 1 < Len(headings)
    THEN At(headings, i + 1).position.start.line = At(headings, i).position.start.line + 1
    ELSE At(headings, i).position.start.line = lastLine(text)

\* C28 as stated: the range of every heading is well-formed, rangeStartOffset
\* <= rangeEndOffset and the start of the assistant text not after rangeEnd.
C28_Original ==
    args.fn = "getHeadingRange" =>
        /\ ret.range.rangeStartOffset <= ret.range.rangeEndOffset
        /\ ~After(AssistantStart(At(cache.headings, args.i)), ret.range.rangeEnd)

\* C28: the range getHeadingRange gives for a heading is empty or inverted
\* by one, never by more: rangeStartOffset <= rangeEndOffset + 1.  It is
\* inverted, rangeStartOffset = rangeEndOffset + 1 and the start of the
\* assistant text after rangeEnd, exactly when the heading is immediately
\* followed by another heading or is the last line of the note; the text
\* read between the two positions and between the two offsets is then
\* empty.  For every other heading rangeStartOffset <= rangeEndOffset and
\* the start of the assistant text is not after rangeEnd.
C28_RangeWellFormed ==
    args.fn = "getHeadingRange" =>
        LET heading == At(cache.headings, args.i)
            r == ret.range
            bare == Bare(cache.headings, args.i, doc)
        IN  /\ r.rangeStartOffset <= r.rangeEndOffset + 1
            /\ r.rangeStartOffset = r.rangeEndOffset + 1 <=> bare
            /\ After(AssistantStart(heading), r.rangeEnd) <=> bare
            /\ bare => /\ getRange(doc, AssistantStart(heading), r.rangeEnd) = <<>>
                       /\ slice(doc, r.rangeStartOffset, r.rangeEndOffset) = <<>>

\* the range of the first heading of "# Q\n# Q" runs from offset 4 to
\* offset 3, and from line 1 to the end of line 0
C28_Witness ==
    /\ args.fn = "getHeadingRange"
    /\ doc = JoinLines(<<LineQ, LineQ>>)
    /\ args.i = 0
    /\ ret.range.rangeStartOffset = 4
    /\ ret.range.rangeEndOffset = 3
    /\ ret.range.rangeEnd = [line |-> 0, ch |-> 3]

ErrorNotice == "An error occurred while communicating with the OpenAI-style service"

\* C29: when the request fails or the stream breaks part-way in "send
\* thread", the run still ends in a closed state.  The AI heading and the
\* chunks that had arrived stay in the note, one error notice is shown, no
\* chunk is written after the error, and the citations that had arrived
\* and the closing "User" heading are still written after them.
C29_ErrorClosed ==
    (pc = "done" /\ \E i \in 1..Len(calls) : calls[i].op = "handleOpenAIError") =>
        LET before == OtherCalls(BeforeRequest(calls))
            after == OtherCalls(AfterRequest(calls))
            n == stream.chunks
            at == posToOffset(doc, mhe.rangeEnd)
            text == Written(calls)
        IN  /\ before = <<Call("setCursor", <<>>),
                          HeadingWrite(mhe.heading.level + 1, AITitle),
                          Call("getOpenAIStream", <<>>)>>
            /\ Len(after) \in {n + 2, n + 3}
            /\ \A i \in 1..n : IsChunkWrite(after[i])
            /\ after[n + 1] = Call("handleOpenAIError", <<>>)
            /\ Len(after) = n + 3 => IsCitationsWrite(after[n + 2])
            /\ after[Len(after)] = HeadingWrite(mhe.heading.level + 2, <<"U", "s", "e", "r">>)
            /\ notices = <<ErrorNotice>>
            /\ slice(doc, at, at + Len(text)) = text
            /\ posToOffset(doc, cursor) = at + Len(text)

\* the stream broke after the chunk "\nb" under "## AI": the chunk, its
\* citations and the heading "### User" are in the note
C29_Witness ==
    /\ pc = "done"
    /\ notices = <<ErrorNotice>>
    /\ mhe.heading.level = 1
    /\ OtherCalls(AfterRequest(calls))
           = <<Call("replaceRangeMoveCursor", <<"\n", "b">>),
               Call("handleOpenAIError", <<>>),
               Call("replaceRangeMoveCursor",
                    CitationsHeader \o <<"1", ".", " ", "<", "u", ">">>),
               Call("replaceRangeMoveCursor",
                    <<"\n", "\n", "#", "#", "#", " ", "U", "s", "e", "r", "\n">>)>>
    /\ Written(AfterRequest(calls)) = slice(doc, posToOffset(doc, cursor)
                                                 - Len(Written(AfterRequest(calls))),
                                            posToOffset(doc, cursor))

\* a step in which completeSelection() starts and returns, fails to build
\* the messages, or makes its request
SelectionStarts ==
    /\ pc = "idle"
    /\ \/ pc' \in {"returned", "opening"}
       \/ /\ pc' = "failed"
          /\ notices' = Append(notices, "Error converting selection to OpenAI-style messages")

\* the selection: the text between the lower and the higher of the offsets
\* of its two ends
SelFrom == Min(posToOffset(doc, anchor), posToOffset(doc, cursor))
SelTo == Max(posToOffset(doc, anchor), posToOffset(doc, cursor))
Selected == SubSeq(doc, SelFrom + 1, SelTo)

\* C30: in "send selection" the message list is exactly the system message
\* and one user message with the parts of the selection, taken from the
\* lower to the higher offset whichever way it was selected; nothing
\* happens when nothing is selected; and the selected text is never lost on
\* failure.  Every step: a command started with nothing selected returns
\* and changes nothing; the request is made with these two messages and the
\* note as it is; a command that returns or fails before its request
\* leaves the note as it is; when the request cannot be opened the selected
\* text is still in the note; and text is only ever removed from the note
\* in replace mode, by the step that follows the opening of the request,
\* which removes the selection.
C30_Selection ==
    [][/\ (SelectionStarts /\ anchor = cursor) =>
              /\ pc' = "returned"
              /\ UNCHANGED <<doc, cursor, anchor, requests, notices, calls, view>>
       /\ (pc = "idle" /\ pc' = "opening") =>
              /\ Len(requests') = 1
              /\ Len(requests'[1].messages) = 2
              /\ requests'[1].messages[1] = StringMessage("system", settings.systemPrompt)
              /\ \E env \in Envs :
                    LET sent(c) == c.ok /\ requests'[1].messages[2]
                                               = PartsMessage("user", c.parts)
                    IN  sent(convertRangeToContentParts(SelFrom, SelTo, Note, TRUE, env))
              /\ (\A i \in 1..Len(Selected) : Selected[i] # "!") =>
                    requests'[1].messages[2]
                        = PartsMessage("user", IF trim(Selected) = <<>> THEN <<>>
                                               ELSE <<ContentText(trim(Selected))>>)
              /\ doc' = doc
       /\ (pc = "idle" /\ pc' \in {"returned", "failed"}) =>
              doc' = doc /\ requests' = requests
       /\ (pc = "opening" /\ pc' = "returned") =>
              /\ Len(notices') = Len(notices) + 1
              /\ doc' = SubSeq(doc, 1, posToOffset(doc, cursor)) \o <<"\n">>
                        \o SubSeq(doc, posToOffset(doc, cursor) + 1, Len(doc))
              /\ \E at \in 0..Len(doc') : slice(doc', at, at + Len(Selected)) = Selected
       /\ Len(doc') < Len(doc) =>
              /\ pc = "opening" /\ pc' = "replying" /\ args.mode = "replace"
              /\ doc' = SubSeq(doc, 1, SelFrom) \o SubSeq(doc, SelTo + 1, Len(doc))]_vars

\* "Hi" was selected from its end to its start in "# Q\nHi" and sent to be
\* replaced, and the request could not be opened: "Hi" is still there
C30_Witness ==
    /\ args.mode = "replace"
    /\ pc = "returned"
    /\ Len(notices) = 1
    /\ OtherCalls(calls) = <<Call("getOpenAIStream", <<>>), Call("handleOpenAIError", <<>>),
                             Call("replaceRangeMoveCursor", <<"\n">>)>>
    /\ requests = <<[messages |-> <<StringMessage("system", <<"S">>),
                                    PartsMessage("user", <<ContentText(LineText)>>)>>,
                     model |-> <<"g">>]>>
    /\ doc = JoinLines(<<LineQ, LineEmpty, LineText>>)

============================================================================
